---------------------------- MODULE Spec2Model ----------------------------
(***************************************************************************)
(* State-machine model of the adaptive interview engine of                 *)
(* basic-ai-chatbot: the DiscoverySession stage machine and its            *)
(* persistence (discovery_engine.py), the EnhancedContextManager           *)
(* (context_manager.py), the DynamicQuestioningEngine                      *)
(* (dynamic_questioning.py) and the interview loops                        *)
(* (discovery_engine.py, enhanced_discovery_bot.py).                       *)
(*                                                                         *)
(* Conventions.  Python texts are TLA+ strings; `in` on strings is real    *)
(* substring containment.  Python's None / True / False returned by an     *)
(* operation are the strings "None" / "True" / "False" in ret.  Floats     *)
(* that are multiples of 0.1 are integers in tenths (strength 1.0 = 10).   *)
(* Timestamps (datetime.now().isoformat()) are not modelled: no branch of  *)
(* the code reads them.                                                    *)
(***************************************************************************)
EXTENDS Integers, Sequences, FiniteSets, TLC

VARIABLES
    discovery_session,   \* the DiscoverySession object (discovery_engine.py:19-37)
    session_file,        \* content of the session file written by save_session
    loads,               \* number of load_session calls made so far
    context_manager,     \* the EnhancedContextManager object (context_manager.py:40-48)
    context_file,        \* content of the file written by save_context
    exchanges,           \* number of add_exchange calls made so far
    personality_profiler,\* the PersonalityProfiler object (personality_profiler.py:60-67)
    dynamic_questioner,  \* the DynamicQuestioningEngine object (dynamic_questioning.py:54-63)
    bot,                 \* the running interview program: its fields, its position, the
                         \* line it read last and what its last iteration printed
    engine_call,         \* arguments and result of the questioning engine's method
                         \* called last by a direct caller
    scoring_call,        \* calculate_gift_scores as called last: the corpus handed
                         \* to it, the dict it returned, and whether the call
                         \* before it was handed the same corpus
    analysis_call,       \* the method of SkillsPassionsAnalyzer called last: its
                         \* name, the responses handed to it and what it returned
    args,                \* the arguments of the last direct call of
                         \* build_communication_profile, should_suggest_deep_dive or
                         \* build_context_for_llm, with what build_context_for_llm
                         \* returned; for determine_communication_style the markers
                         \* and the tuple returned;
                         \* in FollowUpSpec the questions generate_next_question
                         \* returned so far; in RunSpec whether a skip command
                         \* has been read
    op,                  \* name of the operation that ran last
    ret                  \* what that operation returned

vars == <<discovery_session, session_file, loads, context_manager, context_file,
          exchanges, personality_profiler, dynamic_questioner, bot, engine_call,
          scoring_call, analysis_call, args, op, ret>>

sessionVars == <<discovery_session, session_file, loads>>

contextVars == <<context_manager, context_file, exchanges>>

botVars == <<personality_profiler, dynamic_questioner, bot, engine_call, scoring_call, analysis_call, args>>

-----------------------------------------------------------------------------
(* Bounds of the model *)

\* the session accepts at most this many answers in total
MaxResponses == 4

\* the same, in the specification with save_session
MaxSaveResponses == 2

\* the same, in the specification with save_session and load_session
MaxLoadResponses == 1

\* at most this many load_session calls in a behaviour
MaxLoads == 1

\* at most this many add_exchange calls in a behaviour of the context manager
MaxExchanges == 11

\* the same, in the specification with save_context
MaxSaveExchanges == 4

(* Exchanges offered to add_exchange in the context manager specifications *)
ContextInputs ==
    { [ user_input   |-> "I TEACH people",
        bot_response |-> "Great!",
        stage        |-> "introduction" ],
      [ user_input   |-> "I love to help",
        bot_response |-> "Tell me more",
        stage        |-> "skills_assessment" ] }

\* at most this many exchanges in the specification of insights and themes
MaxMemoryExchanges == 11

(* Exchanges offered to add_exchange in the specification of insights and
   themes: the first text carries two phrases of one insight category, in
   mixed case, and three keywords of one theme category *)
MemoryInputs ==
    { [ user_input   |-> "People often come to me. I EXCEL AT it: I teach, explain and mentor people",
        bot_response |-> "Great!",
        stage        |-> "introduction" ],
      [ user_input   |-> "I love to help people",
        bot_response |-> "Tell me more",
        stage        |-> "skills_assessment" ] }

\* at most this many answers in the specification of the questioning engine
MaxQuestionResponses == 2

\* generate_next_question is called while the pattern history is shorter
MaxPatternHistory == 2

\* the session of that specification is advanced at most to this stage index
MaxQuestionStage == 1

\* response counts 0..MaxResponseCount are passed to should_continue_current_stage
MaxResponseCount == 4

(* Answers of the specification of the questioning engine:
   four teaching keywords and a teaching phrase, ending in "good";
   four creative keywords and indicators of core_values and impact_desires;
   triggers of the second and the fourth follow-up rule and one leadership
   keyword, beginning with "At";
   indicators of natural_abilities and energy_sources *)
QuestionTexts ==
    { "I teach, explain, mentor and guide: people come to me, and I am good",
      "I create, design and imagine beauty: it matters and has impact",
      "At first it was difficult when I started to lead",
      "I excel and enjoy it" }

(* Stage names passed to should_continue_current_stage *)
ContinueStages == { "introduction", "skills_assessment", "synthesis" }

(* The scoring corpus: at most MaxAssessmentResponses answers, recorded while
   the session is in one of its first MaxAssessmentStage + 1 stages *)
MaxAssessmentResponses == 2
MaxAssessmentStage == 3

AssessmentTexts == { "I teach and seek Truth", "I lead and care" }

(* The analyzer is handed at most MaxAnalysisResponses responses *)
MaxAnalysisResponses == 3

AnalysisTexts ==
    { "I teach, TEACH and teach", "I mentor and explain", "I lead and organize",
      "I create, study and learn" }

(* The corpus that is scored once: at most MaxScoringResponses answers,
   recorded while the session is in one of its first MaxScoringStage + 1
   stages *)
MaxScoringResponses == 2
MaxScoringStage == 2

ScoringTexts ==
    { "Hm",
      "I love to teach, explain, mentor: learn, education",
      "I teach, speak and study: others enjoy truth, growth, education, understanding when with people" }

(* session_id values (datetime.now() at construction, to the second) *)
SessionIds == {"s0", "s1"}

(* Answer texts offered to process_response in the session specifications *)
SessionTexts == {"I teach", "Help"}

\* the interview of EnhancedSpiritualDiscoveryBot takes at most this many answers
MaxTurns == 1

\* the interview of DiscoveryBot takes at most this many answers
MaxLoopResponses == 1

(* Lines typed at the prompt of EnhancedSpiritualDiscoveryBot *)
EnhancedLines ==
    { "", "   ", " I teach, explain, mentor and guide! ", "I love to help",
      "SAVE", "progress", "insights", "style", "help", "Quit" }

(* Lines typed at the prompt of DiscoveryBot *)
DiscoveryLines ==
    { "", " \t ", "I teach", " Help ", "save", "Progress", "skip", "bye" }

-----------------------------------------------------------------------------
(* Python string operations *)

(* the lower case letter of every upper case letter, and the reverse *)
LowerCase ==
    [ A |-> "a", B |-> "b", C |-> "c", D |-> "d", E |-> "e", F |-> "f", G |-> "g",
      H |-> "h", I |-> "i", J |-> "j", K |-> "k", L |-> "l", M |-> "m", N |-> "n",
      O |-> "o", P |-> "p", Q |-> "q", R |-> "r", S |-> "s", T |-> "t", U |-> "u",
      V |-> "v", W |-> "w", X |-> "x", Y |-> "y", Z |-> "z" ]

UpperCase ==
    [ a |-> "A", b |-> "B", c |-> "C", d |-> "D", e |-> "E", f |-> "F", g |-> "G",
      h |-> "H", i |-> "I", j |-> "J", k |-> "K", l |-> "L", m |-> "M", n |-> "N",
      o |-> "O", p |-> "P", q |-> "Q", r |-> "R", s |-> "S", t |-> "T", u |-> "U",
      v |-> "V", w |-> "W", x |-> "X", y |-> "Y", z |-> "Z" ]

UpperCaseLetters == DOMAIN LowerCase

LowerCaseLetters == DOMAIN UpperCase

LowerChar(c) == IF c \in UpperCaseLetters THEN LowerCase[c] ELSE c

UpperChar(c) == IF c \in LowerCaseLetters THEN UpperCase[c] ELSE c

IsLetter(c) == c \in UpperCaseLetters \/ c \in LowerCaseLetters

(* str.lower(): every character lowered, the text split in halves *)
RECURSIVE lower(_)
lower(s) ==
    IF s = "" THEN ""
    ELSE IF Len(s) = 1 THEN LowerChar(s)
    ELSE LET half == Len(s) \div 2
         IN lower(SubSeq(s, 1, half)) \o lower(SubSeq(s, half + 1, Len(s)))

(* F(x), with x evaluated once whatever the number of its uses in F *)
Once(F(_), x) == CHOOSE y \in { F(v) : v \in {x} } : TRUE

(* `kw in text` on strings: kw occurs as a substring *)
Contains(kw, text) ==
    \E k \in {kw}, t \in {text} :
        \E i \in 1..(Len(t) - Len(k) + 1) : SubSeq(t, i, i + Len(k) - 1) = k

IsSpace(c) == c \in {" ", "\t", "\n"}

RECURSIVE lstrip(_)
lstrip(s) ==
    IF s # "" /\ IsSpace(SubSeq(s, 1, 1)) THEN lstrip(SubSeq(s, 2, Len(s))) ELSE s

RECURSIVE rstrip(_)
rstrip(s) ==
    IF s # "" /\ IsSpace(SubSeq(s, Len(s), Len(s)))
    THEN rstrip(SubSeq(s, 1, Len(s) - 1)) ELSE s

(* str.strip() *)
strip(s) == rstrip(lstrip(s))

-----------------------------------------------------------------------------
(* DiscoverySession: discovery_engine.py:16-234 *)

stages ==
    << "introduction", "skills_assessment", "passion_exploration",
       "values_clarification", "synthesis", "recommendations" >>

NumStages == Len(stages)

StageNames == { stages[i] : i \in 1..NumStages }

(* get_stage_questions: the templates, each cut to its first words *)
get_stage_questions(stage) ==
    CASE stage = "introduction" ->
            << "Hello! I'm excited to guide you",
               "Tell me a bit about yourself",
               "Have you ever taken any personality" >>
      [] stage = "skills_assessment" ->
            << "Let's explore your natural talents",
               "Think about compliments you often receive",
               "What skills have you developed",
               "In what areas do you feel confident teaching" >>
      [] stage = "passion_exploration" ->
            << "What activities make you lose track of time",
               "When you daydream about your ideal life",
               "What causes or issues in the world stir",
               "Think of a time when you felt most alive" >>
      [] stage = "values_clarification" ->
            << "What principles or values guide",
               "What would you want to be remembered for",
               "What injustices or problems in the world",
               "What does 'making a difference' mean" >>
      [] stage = "synthesis" ->
            << "Looking at what we've discussed",
               "What patterns do you notice emerging",
               "If you could design a role" >>
      [] stage = "recommendations" ->
            << "Based on our journey together",
               "What resonates most strongly",
               "How might you begin to explore" >>
      [] OTHER -> << >>

(* __init__ : a fresh session with the given session_id *)
NewDiscoverySession(id) ==
    [ session_id     |-> id,
      current_stage  |-> 0,
      stage_progress |-> [ st \in StageNames |->
                             [completed |-> FALSE, question_count |-> 0] ],
      user_responses |-> [ st \in StageNames |-> << >> ] ]

get_current_stage(s) ==
    IF s.current_stage < Len(stages)
    THEN stages[s.current_stage + 1]
    ELSE "completed"

(* _advance_to_next_stage with the bound check left out *)
advance_unguarded(s) ==
    LET name == stages[IF s.current_stage < Len(stages)
                       THEN s.current_stage + 1 ELSE Len(stages)]
    IN [ s EXCEPT !.stage_progress[name].completed = TRUE,
                  !.current_stage = s.current_stage + 1 ]

(* _advance_to_next_stage that forgets to mark the stage completed *)
advance_no_mark(s) ==
    IF s.current_stage < Len(stages)
    THEN [ s EXCEPT !.current_stage = s.current_stage + 1 ]
    ELSE s

(* _advance_to_next_stage *)
advance_to_next_stage(s) ==
    IF s.current_stage < Len(stages)
    THEN LET current_stage_name == stages[s.current_stage + 1]
         IN [ s EXCEPT !.stage_progress[current_stage_name].completed = TRUE,
                       !.current_stage = s.current_stage + 1 ]
    ELSE s

(* process_response that accepts answers in the completed state too *)
process_response_no_terminal_check(s, user_response) ==
    LET name == IF s.current_stage < Len(stages)
                THEN stages[s.current_stage + 1] ELSE stages[Len(stages)]
    IN [ s   |-> [ s EXCEPT
                     !.user_responses[name] =
                         Append(@, [ response |-> user_response,
                                     question_number |->
                                         s.stage_progress[name].question_count ]),
                     !.stage_progress[name].question_count = @ + 1 ],
         ret |-> "True" ]

(* process_response: the session after the call and the returned flag *)
process_response(s, user_response) ==
    LET current_stage_name == get_current_stage(s)
    IN IF current_stage_name = "completed"
       THEN [ s |-> s, ret |-> "False" ]
       ELSE [ s   |-> [ s EXCEPT
                          !.user_responses[current_stage_name] =
                              Append(@, [ response |-> user_response,
                                          question_number |->
                                              s.stage_progress[current_stage_name].question_count ]),
                          !.stage_progress[current_stage_name].question_count = @ + 1 ],
              ret |-> "True" ]

(* get_next_question that always hands out the first template of the stage *)
RECURSIVE get_next_question_first_template(_)
get_next_question_first_template(s) ==
    LET current_stage_name == get_current_stage(s)
    IN IF current_stage_name = "completed"
       THEN [ s |-> s, ret |-> "None", advances |-> 0 ]
       ELSE LET questions      == get_stage_questions(current_stage_name)
                question_index == s.stage_progress[current_stage_name].question_count
            IN IF question_index >= Len(questions)
               THEN LET r == get_next_question_first_template(advance_to_next_stage(s))
                    IN [ r EXCEPT !.advances = @ + 1 ]
               ELSE [ s |-> s, ret |-> questions[1], advances |-> 0 ]

(* get_next_question that leaves a stage one answer early *)
RECURSIVE get_next_question_advancing_early(_)
get_next_question_advancing_early(s) ==
    LET current_stage_name == get_current_stage(s)
    IN IF current_stage_name = "completed"
       THEN [ s |-> s, ret |-> "None", advances |-> 0 ]
       ELSE LET questions      == get_stage_questions(current_stage_name)
                question_index == s.stage_progress[current_stage_name].question_count
            IN IF question_index + 1 >= Len(questions)
               THEN LET r == get_next_question_advancing_early(advance_to_next_stage(s))
                    IN [ r EXCEPT !.advances = @ + 1 ]
               ELSE [ s |-> s, ret |-> questions[question_index + 1],
                      advances |-> 0 ]

(* get_next_question: the session after the call, the returned template
   ("None" when the stages are exhausted) and the number of advances made *)
RECURSIVE get_next_question(_)
get_next_question(s) ==
    LET current_stage_name == get_current_stage(s)
    IN IF current_stage_name = "completed"
       THEN [ s |-> s, ret |-> "None", advances |-> 0 ]
       ELSE LET questions      == get_stage_questions(current_stage_name)
                question_index == s.stage_progress[current_stage_name].question_count
            IN IF question_index >= Len(questions)
               THEN LET r == get_next_question(advance_to_next_stage(s))
                    IN [ r EXCEPT !.advances = @ + 1 ]
               ELSE [ s |-> s, ret |-> questions[question_index + 1],
                      advances |-> 0 ]

total_responses(s) ==
    LET RECURSIVE Sum(_)
        Sum(i) == IF i = 0 THEN 0
                  ELSE Len(s.user_responses[stages[i]]) + Sum(i - 1)
    IN Sum(NumStages)

-----------------------------------------------------------------------------
(* EnhancedContextManager: context_manager.py:29-300.
   themes, a dict, is the sequence of its values in insertion order. *)

max_context_window == 8

\* insight_threshold 0.6, in tenths
insight_threshold == 6

\* strength of a new theme 1.0, the increment 0.5 and the cap 5.0, in tenths
ThemeInitialStrength == 10

ThemeStrengthIncrement == 5

ThemeStrengthCap == 50

NewContextManager ==
    [ insights              |-> << >>,
      themes                |-> << >>,
      conversation_timeline |-> << >>,
      current_stage         |-> "introduction" ]

(* insight_patterns, flattened in iteration order; confidence in tenths *)
insight_patterns ==
    << [insight_type |-> "strong_skill_indicator", pattern |-> "people often come to me", confidence |-> 8],
       [insight_type |-> "strong_skill_indicator", pattern |-> "i excel at",              confidence |-> 8],
       [insight_type |-> "strong_skill_indicator", pattern |-> "i'm naturally good at",   confidence |-> 9],
       [insight_type |-> "strong_skill_indicator", pattern |-> "others seek me out",      confidence |-> 8],
       [insight_type |-> "strong_skill_indicator", pattern |-> "i find it easy to",       confidence |-> 7],
       [insight_type |-> "passion_indicator",      pattern |-> "i love",                  confidence |-> 8],
       [insight_type |-> "passion_indicator",      pattern |-> "makes me feel alive",     confidence |-> 9],
       [insight_type |-> "passion_indicator",      pattern |-> "lose track of time",      confidence |-> 9],
       [insight_type |-> "passion_indicator",      pattern |-> "deeply passionate about", confidence |-> 9],
       [insight_type |-> "passion_indicator",      pattern |-> "stirs my heart",          confidence |-> 8],
       [insight_type |-> "value_indicator",        pattern |-> "important to me",         confidence |-> 7],
       [insight_type |-> "value_indicator",        pattern |-> "i believe in",            confidence |-> 7],
       [insight_type |-> "value_indicator",        pattern |-> "guides my decisions",     confidence |-> 8],
       [insight_type |-> "value_indicator",        pattern |-> "core value",              confidence |-> 9],
       [insight_type |-> "gift_indicator",         pattern |-> "calling",                 confidence |-> 8],
       [insight_type |-> "gift_indicator",         pattern |-> "ministry",                confidence |-> 8],
       [insight_type |-> "gift_indicator",         pattern |-> "gifted in",               confidence |-> 9],
       [insight_type |-> "gift_indicator",         pattern |-> "spiritual gift",          confidence |-> 9] >>

(* _extract_insights_from_exchange that looks for the phrases in the text as
   typed *)
extract_insights_case_sensitive(insights, user_input, stage) ==
    LET Hits(text) ==
            SelectSeq(insight_patterns,
                      LAMBDA p : Contains(p.pattern, text)
                                 /\ p.confidence >= insight_threshold)
        Found(hits) ==
            [ i \in 1..Len(hits) |->
                [ content      |-> user_input,
                  stage        |-> stage,
                  confidence   |-> hits[i].confidence,
                  insight_type |-> hits[i].insight_type ] ]
    IN insights \o Once(Found, Once(Hits, user_input))

(* _extract_insights_from_exchange: the insights list after the call *)
extract_insights_from_exchange(insights, user_input, stage) ==
    LET Hits(user_lower) ==
            SelectSeq(insight_patterns,
                      LAMBDA p : Contains(p.pattern, user_lower)
                                 /\ p.confidence >= insight_threshold)
        Found(hits) ==
            [ i \in 1..Len(hits) |->
                [ content      |-> user_input,
                  stage        |-> stage,
                  confidence   |-> hits[i].confidence,
                  insight_type |-> hits[i].insight_type ] ]
    IN insights \o Once(Found, Once(Hits, lower(user_input)))

(* theme_keywords, in iteration order *)
theme_keywords ==
    << [theme_name |-> "teaching",
        keywords |-> <<"teach", "explain", "mentor", "guide", "instruct", "help others learn">>],
       [theme_name |-> "leadership",
        keywords |-> <<"lead", "direct", "manage", "organize", "vision", "inspire others">>],
       [theme_name |-> "helping",
        keywords |-> <<"help", "serve", "support", "assist", "care for", "come alongside">>],
       [theme_name |-> "creativity",
        keywords |-> <<"create", "design", "artistic", "express", "beauty", "innovation">>],
       [theme_name |-> "justice",
        keywords |-> <<"justice", "fairness", "equality", "advocate", "stand up for", "rights">>],
       [theme_name |-> "people_focus",
        keywords |-> <<"people", "relationships", "community", "connection", "social">>] >>

ThemeNames == { theme_keywords[i].theme_name : i \in 1..Len(theme_keywords) }

(* position of a theme in the dict, 0 when it is not a key *)
ThemeIndex(themes, name) ==
    IF \E i \in 1..Len(themes) : themes[i].theme_name = name
    THEN CHOOSE i \in 1..Len(themes) : themes[i].theme_name = name
    ELSE 0

(* the body of the loop of _update_themes without the cap *)
update_one_theme_uncapped(themes, rule, user_input, user_lower, stage) ==
    LET matches == SelectSeq(rule.keywords, LAMBDA kw : Contains(kw, user_lower))
        i == ThemeIndex(themes, rule.theme_name)
    IN IF matches = << >> THEN themes
       ELSE IF i = 0
       THEN Append(themes, [ theme_name      |-> rule.theme_name,
                             evidence        |-> << user_input >>,
                             strength        |-> ThemeInitialStrength,
                             first_mentioned |-> stage ])
       ELSE [ themes EXCEPT ![i].evidence = Append(@, user_input),
                            ![i].strength = @ + ThemeStrengthIncrement ]

(* the body of the loop of _update_themes that strengthens the theme once
   per matched keyword *)
update_one_theme_per_keyword(themes, rule, user_input, user_lower, stage) ==
    LET matches == SelectSeq(rule.keywords, LAMBDA kw : Contains(kw, user_lower))
        i == ThemeIndex(themes, rule.theme_name)
    IN IF matches = << >> THEN themes
       ELSE IF i = 0
       THEN Append(themes, [ theme_name      |-> rule.theme_name,
                             evidence        |-> << user_input >>,
                             strength        |-> ThemeInitialStrength,
                             first_mentioned |-> stage ])
       ELSE LET strengthened == themes[i].strength
                                  + ThemeStrengthIncrement * Len(matches)
            IN [ themes EXCEPT
                   ![i].evidence = Append(@, user_input),
                   ![i].strength = IF strengthened > ThemeStrengthCap
                                   THEN ThemeStrengthCap ELSE strengthened ]

(* the body of the loop of _update_themes for one theme_keywords entry *)
update_one_theme(themes, rule, user_input, user_lower, stage) ==
    LET matches == SelectSeq(rule.keywords, LAMBDA kw : Contains(kw, user_lower))
        i == ThemeIndex(themes, rule.theme_name)
    IN IF matches = << >> THEN themes
       ELSE IF i = 0
       THEN Append(themes, [ theme_name      |-> rule.theme_name,
                             evidence        |-> << user_input >>,
                             strength        |-> ThemeInitialStrength,
                             first_mentioned |-> stage ])
       ELSE LET strengthened == themes[i].strength + ThemeStrengthIncrement
            IN [ themes EXCEPT
                   ![i].evidence = Append(@, user_input),
                   ![i].strength = IF strengthened > ThemeStrengthCap
                                   THEN ThemeStrengthCap ELSE strengthened ]

(* _update_themes: the themes after the call *)
update_themes(themes, user_input, stage) ==
    LET All(user_lower) ==
          LET RECURSIVE Loop(_, _)
              Loop(th, k) ==
                  IF k > Len(theme_keywords) THEN th
                  ELSE Once(LAMBDA th1 : Loop(th1, k + 1),
                            update_one_theme(th, theme_keywords[k], user_input,
                                             user_lower, stage))
          IN Loop(themes, 1)
    IN Once(All, lower(user_input))

(* _manage_context_window that keeps the oldest exchanges *)
manage_context_window_keeps_oldest(timeline) ==
    IF Len(timeline) > max_context_window
    THEN SubSeq(timeline, 1, max_context_window)
    ELSE timeline

(* _manage_context_window: the timeline after the call *)
manage_context_window(timeline) ==
    IF Len(timeline) > max_context_window
    THEN SubSeq(timeline, Len(timeline) - max_context_window + 1, Len(timeline))
    ELSE timeline

(* add_exchange: the manager after the call *)
add_exchange(cm, user_input, bot_response, stage) ==
    LET exchange == [ stage        |-> stage,
                      user_input   |-> user_input,
                      bot_response |-> bot_response,
                      exchange_id  |-> Len(cm.conversation_timeline) ]
    IN [ insights              |-> extract_insights_from_exchange(cm.insights, user_input, stage),
         themes                |-> update_themes(cm.themes, user_input, stage),
         conversation_timeline |-> manage_context_window(Append(cm.conversation_timeline, exchange)),
         current_stage         |-> stage ]

\* the strength 2.5, in tenths, and the evidence count from which a deep dive
\* is suggested
DeepDiveStrength == 25

DeepDiveEvidence == 3

(* should_suggest_deep_dive, were a strength of 2.0 enough *)
should_suggest_deep_dive_from_strong(cm, theme) ==
    LET i == ThemeIndex(cm.themes, theme)
    IN IF i # 0
       THEN /\ cm.themes[i].strength >= DeepDiveStrength - ThemeStrengthIncrement
            /\ Len(cm.themes[i].evidence) >= DeepDiveEvidence
       ELSE FALSE

(* should_suggest_deep_dive *)
should_suggest_deep_dive(cm, theme) ==
    LET i == ThemeIndex(cm.themes, theme)
    IN IF i # 0
       THEN /\ cm.themes[i].strength >= DeepDiveStrength
            /\ Len(cm.themes[i].evidence) >= DeepDiveEvidence
       ELSE FALSE

\* build_context_for_llm: the confidence 0.8 and the strength 2.0, in tenths,
\* from which an insight and a theme are shown, how many of each and of the
\* exchanges are shown, and the lengths insights and replies are cut to
HighConfidence == 8

StrongThemeStrength == 20

MaxInsightsShown == 3

MaxThemesShown == 3

MaxExchangesShown == 3

InsightContentLimit == 100

BotResponseLimit == 150

(* seq[-n:] and seq[:n] *)
LastOf(seq, n) == IF Len(seq) > n THEN SubSeq(seq, Len(seq) - n + 1, Len(seq)) ELSE seq

FirstOf(seq, n) == IF Len(seq) > n THEN SubSeq(seq, 1, n) ELSE seq

(* str.title(): a letter is upper-cased after a non-letter and lower-cased
   after a letter *)
title(s) ==
    LET RECURSIVE Build(_)
        Build(i) ==
            IF i > Len(s) THEN ""
            ELSE (IF i = 1 \/ ~IsLetter(SubSeq(s, i - 1, i - 1))
                  THEN UpperChar(SubSeq(s, i, i)) ELSE LowerChar(SubSeq(s, i, i)))
                 \o Build(i + 1)
    IN Build(1)

(* the insights build_context_for_llm shows, were they the first three *)
shown_insights_first_three(insights) ==
    FirstOf(SelectSeq(insights, LAMBDA i : i.confidence >= HighConfidence), MaxInsightsShown)

(* high_confidence_insights[-3:] *)
shown_insights(insights) ==
    LastOf(SelectSeq(insights, LAMBDA i : i.confidence >= HighConfidence), MaxInsightsShown)

(* strong_themes.sort(key = strength, reverse = True): a stable sort, equal
   strengths keep the order of the dict *)
sort_by_strength(strong_themes) ==
    LET RECURSIVE Insert(_, _)
        Insert(sorted, t) ==
            IF sorted = << >> THEN << t >>
            ELSE IF Head(sorted).strength >= t.strength
                 THEN << Head(sorted) >> \o Insert(Tail(sorted), t)
                 ELSE << t >> \o sorted
        RECURSIVE Sort(_, _)
        Sort(sorted, i) ==
            IF i > Len(strong_themes) THEN sorted
            ELSE Once(LAMBDA next : Sort(next, i + 1), Insert(sorted, strong_themes[i]))
    IN Sort(<< >>, 1)

(* strong_themes[:3] after the sort *)
shown_themes(themes) ==
    FirstOf(sort_by_strength(SelectSeq(themes, LAMBDA t : t.strength >= StrongThemeStrength)),
            MaxThemesShown)

(* build_context_for_llm: context_parts, the lines "\n".join puts together.
   A part is a record of the values its f-string formats: a header is its
   text, an insight line its stage and cut content, a theme line the titled
   name, the evidence count and the strength (printed with one decimal,
   which tenths give exactly), an exchange two lines of user input and cut
   reply.  current_user_input is "None" when the argument is left out. *)
build_context_for_llm(cm, current_user_input) ==
    LET insights == shown_insights(cm.insights)
        themes   == shown_themes(cm.themes)
        recent   == LastOf(cm.conversation_timeline, MaxExchangesShown)
        RECURSIVE Exchanges(_)
        Exchanges(i) ==
            IF i > Len(recent) THEN << >>
            ELSE << [ kind |-> "user", text |-> recent[i].user_input ],
                    [ kind |-> "guide",
                      text |-> FirstOf(recent[i].bot_response, BotResponseLimit) \o "..." ] >>
                 \o Exchanges(i + 1)
    IN ( IF insights = << >> THEN << >>
         ELSE << [ kind |-> "header", text |-> "KEY INSIGHTS DISCOVERED:" ] >>
              \o [ i \in 1..Len(insights) |->
                     [ kind    |-> "insight",
                       stage   |-> insights[i].stage,
                       content |-> FirstOf(insights[i].content, InsightContentLimit)
                                   \o "..." ] ] )
       \o ( IF themes = << >> THEN << >>
            ELSE << [ kind |-> "header", text |-> "\nEMERGING THEMES:" ] >>
                 \o [ i \in 1..Len(themes) |->
                        [ kind       |-> "theme",
                          theme_name |-> title(themes[i].theme_name),
                          mentioned  |-> Len(themes[i].evidence),
                          strength   |-> themes[i].strength ] ] )
       \o << [ kind |-> "header", text |-> "\nRECENT CONVERSATION:" ] >>
       \o Exchanges(1)
       \o ( IF current_user_input \notin { "None", "" }
            THEN << [ kind |-> "current", text |-> current_user_input ] >>
            ELSE << >> )

(* save_context that keeps only the three most recent exchanges *)
context_data_recent_only(cm) ==
    [ insights              |-> cm.insights,
      themes                |-> [ i \in 1..Len(cm.themes) |->
                                    [ key |-> cm.themes[i].theme_name, value |-> cm.themes[i] ] ],
      conversation_timeline |->
          IF Len(cm.conversation_timeline) > 3
          THEN SubSeq(cm.conversation_timeline,
                      Len(cm.conversation_timeline) - 2, Len(cm.conversation_timeline))
          ELSE cm.conversation_timeline,
      current_stage         |-> cm.current_stage ]

(* save_context: the JSON object written.  insights is the list of the
   insights' fields, themes the object with one member per dict entry, in
   order, each member the theme's fields. *)
context_data(cm) ==
    [ insights              |-> [ i \in 1..Len(cm.insights) |->
                                    [ content      |-> cm.insights[i].content,
                                      stage        |-> cm.insights[i].stage,
                                      confidence   |-> cm.insights[i].confidence,
                                      insight_type |-> cm.insights[i].insight_type ] ],
      themes                |-> [ i \in 1..Len(cm.themes) |->
                                    [ key   |-> cm.themes[i].theme_name,
                                      value |-> [ theme_name      |-> cm.themes[i].theme_name,
                                                  evidence        |-> cm.themes[i].evidence,
                                                  strength        |-> cm.themes[i].strength,
                                                  first_mentioned |-> cm.themes[i].first_mentioned ] ] ],
      conversation_timeline |-> cm.conversation_timeline,
      current_stage         |-> cm.current_stage ]

(* the manager rebuilt from a record written by save_context: a
   ContextInsight per insights entry, a ConversationTheme per themes
   member under its key, the timeline and the stage as recorded *)
reconstruct_context(d) ==
    [ insights              |-> [ i \in 1..Len(d.insights) |->
                                    [ content      |-> d.insights[i].content,
                                      stage        |-> d.insights[i].stage,
                                      confidence   |-> d.insights[i].confidence,
                                      insight_type |-> d.insights[i].insight_type ] ],
      themes                |-> [ i \in 1..Len(d.themes) |->
                                    [ theme_name      |-> d.themes[i].key,
                                      evidence        |-> d.themes[i].value.evidence,
                                      strength        |-> d.themes[i].value.strength,
                                      first_mentioned |-> d.themes[i].value.first_mentioned ] ],
      conversation_timeline |-> d.conversation_timeline,
      current_stage         |-> d.current_stage ]

-----------------------------------------------------------------------------
(* DynamicQuestioningEngine: dynamic_questioning.py:43-425.
   Confidences, thresholds and priorities are in tenths.  A
   DynamicQuestion is its question_text, question_type, target_theme and
   priority; its reasoning, a text for display, is left out. *)

\* pattern_threshold 0.7, max_follow_ups 2, deep_dive_threshold 0.8
pattern_threshold == 7

max_follow_ups == 2

deep_dive_threshold == 8

\* score added per matched keyword (0.2) and per matched phrase (0.3)
KeywordWeight == 2

PhraseWeight == 3

\* min(score, 1.0)
MaxConfidence == 10

\* "Max 4 per stage" in should_continue_current_stage
MaxResponsesPerStage == 4

(* _define_coverage_requirements: area and its canonical questions, in
   dict order, each question cut to its first words *)
coverage_requirements ==
    << [area |-> "natural_abilities",
        questions |-> << "What comes easily to you",
                         "What skills do people compliment you on",
                         "In what areas do others seek your help" >>],
       [area |-> "energy_sources",
        questions |-> << "What activities energize rather than drain you",
                         "When do you feel most alive and engaged",
                         "What would you do for free" >>],
       [area |-> "core_values",
        questions |-> << "What principles guide your important decisions",
                         "What would you want to be remembered for?",
                         "What injustices or problems motivate you to action" >>],
       [area |-> "impact_desires",
        questions |-> << "How do you want to make a difference",
                         "What legacy do you hope to leave",
                         "Who do you most want to help or serve" >>] >>

CoverageAreas == { coverage_requirements[i].area : i \in 1..Len(coverage_requirements) }

NewDynamicQuestioningEngine ==
    [ response_patterns       |-> << >>,
      coverage_status         |-> [ a \in CoverageAreas |-> FALSE ],
      dynamic_questions_asked |-> << >> ]

(* pattern_rules, in dict order *)
pattern_rules ==
    << [pattern_name |-> "strong_teaching_indicators",
        keywords  |-> <<"teach", "explain", "mentor", "guide", "help others learn", "break down">>,
        phrases   |-> <<"people come to me", "i love helping others understand", "explaining">>,
        threshold |-> 7],
       [pattern_name |-> "leadership_emergence",
        keywords  |-> <<"lead", "organize", "vision", "inspire", "motivate others", "take charge">>,
        phrases   |-> <<"others follow", "i see the big picture", "rally people">>,
        threshold |-> 7],
       [pattern_name |-> "service_orientation",
        keywords  |-> <<"serve", "help", "support", "care", "assist", "come alongside">>,
        phrases   |-> <<"behind the scenes", "prefer to support", "help others succeed">>,
        threshold |-> 6],
       [pattern_name |-> "creative_expression",
        keywords  |-> <<"create", "design", "artistic", "beauty", "express", "imagine">>,
        phrases   |-> <<"creative outlet", "artistic expression", "beauty matters">>,
        threshold |-> 6],
       [pattern_name |-> "justice_passion",
        keywords  |-> <<"justice", "fair", "equality", "advocate", "stand up", "rights">>,
        phrases   |-> <<"not fair", "speak up for", "injustice bothers me">>,
        threshold |-> 7] >>

(* _get_pattern_implications *)
get_pattern_implications(pattern_name) ==
    CASE pattern_name = "strong_teaching_indicators" ->
            << "Explore specific teaching experiences",
               "Ask about satisfaction from others learning",
               "Investigate formal vs informal teaching preferences" >>
      [] pattern_name = "leadership_emergence" ->
            << "Explore vision-casting experiences",
               "Ask about team dynamics and motivation",
               "Investigate leadership style preferences" >>
      [] pattern_name = "service_orientation" ->
            << "Explore behind-the-scenes contributions",
               "Ask about satisfaction from supporting others",
               "Investigate preferred ways to help" >>
      [] pattern_name = "creative_expression" ->
            << "Explore artistic outlets and mediums",
               "Ask about role of beauty in life",
               "Investigate creative problem-solving" >>
      [] pattern_name = "justice_passion" ->
            << "Explore specific justice issues that matter",
               "Ask about advocacy experiences",
               "Investigate ways they want to create change" >>
      [] OTHER -> << >>

(* ' '.join(texts) *)
RECURSIVE JoinWithSpace(_)
JoinWithSpace(texts) ==
    IF texts = << >> THEN ""
    ELSE IF Len(texts) = 1 THEN texts[1]
    ELSE texts[1] \o " " \o JoinWithSpace(Tail(texts))

(* the response texts of all stages, in the order of user_responses.values() *)
AllResponses(user_responses) ==
    LET RECURSIVE Collect(_)
        Collect(i) ==
            IF i > Len(stages) THEN << >>
            ELSE IF stages[i] \notin DOMAIN user_responses THEN Collect(i + 1)
            ELSE [ k \in 1..Len(user_responses[stages[i]]) |->
                     user_responses[stages[i]][k].response ] \o Collect(i + 1)
    IN Collect(1)

(* one pass of the loop of analyze_response_patterns without the cap of
   the score *)
DetectPattern_uncapped(rule, response_text, current_stage) ==
    LET Found(hits) ==
          LET evidence == [ i \in 1..Len(hits.kw) |-> "Mentioned: " \o hits.kw[i] ]
                          \o [ i \in 1..Len(hits.ph) |-> "Said: " \o hits.ph[i] ]
              score == KeywordWeight * Len(hits.kw) + PhraseWeight * Len(hits.ph)
              confidence == score
          IN IF confidence >= rule.threshold /\ evidence # << >>
             THEN << [ pattern_name     |-> rule.pattern_name,
                       confidence       |-> confidence,
                       evidence         |-> evidence,
                       stage_first_seen |-> current_stage,
                       implications     |-> get_pattern_implications(rule.pattern_name) ] >>
             ELSE << >>
    IN Once(Found,
            [ kw |-> SelectSeq(rule.keywords, LAMBDA k : Contains(k, response_text)),
              ph |-> SelectSeq(rule.phrases,  LAMBDA ph : Contains(ph, response_text)) ])

(* one pass of the loop of analyze_response_patterns: the pattern found
   for a rule, as a sequence of length 0 or 1 *)
DetectPattern(rule, response_text, current_stage) ==
    LET Found(hits) ==
          LET evidence == [ i \in 1..Len(hits.kw) |-> "Mentioned: " \o hits.kw[i] ]
                          \o [ i \in 1..Len(hits.ph) |-> "Said: " \o hits.ph[i] ]
              score == KeywordWeight * Len(hits.kw) + PhraseWeight * Len(hits.ph)
              confidence == IF score < MaxConfidence THEN score ELSE MaxConfidence
          IN IF confidence >= rule.threshold /\ evidence # << >>
             THEN << [ pattern_name     |-> rule.pattern_name,
                       confidence       |-> confidence,
                       evidence         |-> evidence,
                       stage_first_seen |-> current_stage,
                       implications     |-> get_pattern_implications(rule.pattern_name) ] >>
             ELSE << >>
    IN Once(Found,
            [ kw |-> SelectSeq(rule.keywords, LAMBDA k : Contains(k, response_text)),
              ph |-> SelectSeq(rule.phrases,  LAMBDA ph : Contains(ph, response_text)) ])

(* analyze_response_patterns: the patterns of this pass; the caller
   extends response_patterns by them *)
analyze_response_patterns(user_responses, current_stage) ==
    LET Patterns(response_text) ==
          LET RECURSIVE Loop(_)
              Loop(i) == IF i > Len(pattern_rules) THEN << >>
                         ELSE DetectPattern(pattern_rules[i], response_text, current_stage)
                              \o Loop(i + 1)
          IN Loop(1)
    IN Once(Patterns, lower(JoinWithSpace(AllResponses(user_responses))))

NoQuestion == [ question_text |-> "None", question_type |-> "None",
                target_theme |-> "None", priority |-> 0 ]

(* _generate_deep_dive_question; NoQuestion stands for None *)
generate_deep_dive_question(pattern) ==
    LET templates ==
          CASE pattern.pattern_name = "strong_teaching_indicators" ->
                  << "You've mentioned teaching/explaining several times",
                     "It sounds like you have a natural teaching gift",
                     "When you're explaining something to someone" >>
            [] pattern.pattern_name = "leadership_emergence" ->
                  << "I notice leadership themes in what you're sharing",
                     "What happens when you're in a group",
                     "How do you typically motivate or inspire others?" >>
            [] pattern.pattern_name = "service_orientation" ->
                  << "You seem drawn to supporting and helping others",
                     "Tell me about a time when you helped someone succeed",
                     "Do you prefer to help from behind the scenes" >>
            [] OTHER -> << >>
    IN IF templates = << >> THEN NoQuestion
       ELSE [ question_text |-> templates[1],
              question_type |-> "deep_dive",
              target_theme  |-> pattern.pattern_name,
              priority      |-> 9 ]

(* follow_up_rules, in list order *)
follow_up_rules ==
    << [triggers |-> <<"i love", "passionate about", "deeply care">>,
        question |-> "What specifically about that resonates so deeply with you?"],
       [triggers |-> <<"difficult", "challenging", "struggle with">>,
        question |-> "Even though it's challenging, what draws you to persist with it?"],
       [triggers |-> <<"people come to me", "others seek me out", "friends ask me">>,
        question |-> "What do you think it is about you that makes people naturally turn to you for this?"],
       [triggers |-> <<"started", "began", "initiated">>,
        question |-> "What motivated you to take that first step?"] >>

(* _generate_follow_up_question; NoQuestion stands for None *)
generate_follow_up_question(last_response, stage) ==
    LET Fired(response_lower) ==
            SelectSeq(follow_up_rules,
                      LAMBDA rule : \E i \in 1..Len(rule.triggers) :
                                        Contains(rule.triggers[i], response_lower))
        Question(fired) ==
            IF fired = << >> THEN NoQuestion
            ELSE [ question_text |-> fired[1].question,
                   question_type |-> "follow_up",
                   target_theme  |-> stage,
                   priority      |-> 7 ]
    IN Once(Question, Once(Fired, lower(last_response)))

(* theme_indicators of _find_uncovered_area *)
theme_indicators(area) ==
    CASE area = "natural_abilities" -> <<"good at", "excel", "talented", "naturally", "easily">>
      [] area = "energy_sources"    -> <<"energizes", "love", "enjoy", "alive", "passionate">>
      [] area = "core_values"       -> <<"value", "important", "principle", "believe", "matters">>
      [] area = "impact_desires"    -> <<"difference", "change", "help", "impact", "legacy">>
      [] OTHER -> << >>

(* _find_uncovered_area: the first area of coverage_requirements none of
   whose indicators occurs in the joined answers; "None" if there is none *)
find_uncovered_area(user_responses) ==
    LET Uncovered(all_text) ==
            SelectSeq(coverage_requirements,
                      LAMBDA r : ~ \E i \in 1..Len(theme_indicators(r.area)) :
                                      Contains(theme_indicators(r.area)[i], all_text))
        First(uncovered) == IF uncovered = << >> THEN "None" ELSE uncovered[1].area
    IN Once(First, Once(Uncovered, lower(JoinWithSpace(AllResponses(user_responses)))))

(* the areas of coverage_requirements that _find_uncovered_area does not put
   into covered_themes, in the order of coverage_requirements *)
areas_not_covered(user_responses) ==
    LET Uncovered(all_text) ==
            SelectSeq(coverage_requirements,
                      LAMBDA r : ~ \E i \in 1..Len(theme_indicators(r.area)) :
                                      Contains(theme_indicators(r.area)[i], all_text))
        Areas(uncovered) == [ i \in 1..Len(uncovered) |-> uncovered[i].area ]
    IN Once(Areas, Once(Uncovered, lower(JoinWithSpace(AllResponses(user_responses)))))

(* _generate_coverage_question *)
generate_coverage_question(uncovered_area) ==
    LET r == CHOOSE x \in { coverage_requirements[i] : i \in 1..Len(coverage_requirements) } :
                 x.area = uncovered_area
    IN [ question_text |-> r.questions[1],
         question_type |-> "standard",
         target_theme  |-> uncovered_area,
         priority      |-> 6 ]

(* _generate_synthesis_question *)
generate_synthesis_question ==
    [ question_text |-> "Looking at what you've shared about your strengths and passions",
      question_type |-> "synthesis",
      target_theme  |-> "pattern_connection",
      priority      |-> 8 ]

(* _generate_standard_question *)
generate_standard_question(stage) ==
    [ question_text |->
          CASE stage = "introduction" ->
                  "Tell me what brought you here to explore your spiritual gifts today?"
            [] stage = "skills_assessment" ->
                  "What's something you do that others find difficult but comes naturally to you?"
            [] stage = "passion_exploration" ->
                  "What activities or causes make you feel most alive and engaged?"
            [] stage = "values_clarification" ->
                  "What principles or values guide your most important decisions?"
            [] OTHER -> "Tell me more about your experiences.",
      question_type |-> "standard",
      target_theme  |-> stage,
      priority      |-> 5 ]

(* generate_next_question that looks at the synthesis condition before the
   coverage requirements *)
generate_next_question_synthesis_first(dq, user_responses, current_stage, last_response) ==
    LET Next(new_patterns) ==
          LET dq1 == [ dq EXCEPT !.response_patterns = @ \o new_patterns ]
              deep == SelectSeq(
                          [ i \in 1..Len(new_patterns) |->
                              IF new_patterns[i].confidence >= deep_dive_threshold
                              THEN generate_deep_dive_question(new_patterns[i])
                              ELSE NoQuestion ],
                          LAMBDA q : q # NoQuestion)
              strong == SelectSeq(dq1.response_patterns, LAMBDA pt : pt.confidence >= 7)
              Rest(follow_up) ==
                  IF follow_up # NoQuestion THEN follow_up
                  ELSE IF Len(strong) >= 2 THEN generate_synthesis_question
                  ELSE Once(LAMBDA uncovered_area :
                                IF uncovered_area # "None"
                                THEN generate_coverage_question(uncovered_area)
                                ELSE generate_standard_question(current_stage),
                            find_uncovered_area(user_responses))
          IN [ dq |-> dq1,
               question |->
                   Once(LAMBDA d : IF d # << >> THEN d[1]
                                   ELSE Once(Rest, generate_follow_up_question(last_response,
                                                                               current_stage)),
                        deep) ]
    IN Once(Next, analyze_response_patterns(user_responses, current_stage))

(* generate_next_question: the engine after the call and the question *)
generate_next_question(dq, user_responses, current_stage, last_response) ==
    LET Next(new_patterns) ==
          LET dq1 == [ dq EXCEPT !.response_patterns = @ \o new_patterns ]
              deep == SelectSeq(
                          [ i \in 1..Len(new_patterns) |->
                              IF new_patterns[i].confidence >= deep_dive_threshold
                              THEN generate_deep_dive_question(new_patterns[i])
                              ELSE NoQuestion ],
                          LAMBDA q : q # NoQuestion)
              strong == SelectSeq(dq1.response_patterns, LAMBDA pt : pt.confidence >= 7)
              Rest(follow_up) ==
                  IF follow_up # NoQuestion THEN follow_up
                  ELSE Once(LAMBDA uncovered_area :
                                IF uncovered_area # "None"
                                THEN generate_coverage_question(uncovered_area)
                                ELSE IF Len(strong) >= 2 THEN generate_synthesis_question
                                ELSE generate_standard_question(current_stage),
                            find_uncovered_area(user_responses))
          IN [ dq |-> dq1,
               question |->
                   Once(LAMBDA d : IF d # << >> THEN d[1]
                                   ELSE Once(Rest, generate_follow_up_question(last_response,
                                                                               current_stage)),
                        deep) ]
    IN Once(Next, analyze_response_patterns(user_responses, current_stage))

(* min_responses.get(stage, 1) *)
min_responses(stage) ==
    CASE stage = "introduction" -> 1
      [] stage = "skills_assessment" -> 2
      [] stage = "passion_exploration" -> 2
      [] stage = "values_clarification" -> 1
      [] OTHER -> 1

(* should_continue_current_stage without the maximum per stage *)
should_continue_without_maximum(dq, stage, response_count) ==
    IF response_count < min_responses(stage) THEN TRUE
    ELSE LET recent_patterns ==
                 SelectSeq(dq.response_patterns, LAMBDA pt : pt.confidence >= 8)
         IN recent_patterns # << >>

(* should_continue_current_stage *)
should_continue_current_stage(dq, stage, response_count) ==
    IF response_count < min_responses(stage) THEN TRUE
    ELSE LET recent_patterns ==
                 SelectSeq(dq.response_patterns, LAMBDA pt : pt.confidence >= 8)
         IN recent_patterns # << >> /\ response_count < MaxResponsesPerStage

(* no method of the engine has been called *)
NoCall ==
    [ current_stage  |-> "None",
      last_response  |-> "",
      response_count |-> 0,
      new_patterns   |-> << >>,
      question       |-> NoQuestion ]

-----------------------------------------------------------------------------
(* PersonalityProfiler: personality_profiler.py:49-386.
   A marker, a quotient of two counts, is the fraction [num, den].  A style
   score, a sum of the floats 0.3, 0.2 and 0.1, is [tenths, ulps]: the
   double nearest to tenths / 10, moved by ulps units in the last place. *)

min_samples_for_profile == 3

NoProfile == [ primary_style |-> "None" ]

NewPersonalityProfiler ==
    [ communication_samples |-> << >>,
      current_profile       |-> NoProfile,
      style_history         |-> << >> ]

Fraction(n, d) == [ num |-> n, den |-> d ]

\* r < a / b and r > a / b for a fraction r with r.den > 0 and b > 0
FractionLess(r, a, b) == r.num * b < a * r.den

FractionGreater(r, a, b) == r.num * b > a * r.den

(* len(response.split()): the number of maximal runs of non-space characters *)
WordCount(text) ==
    Cardinality({ i \in 1..Len(text) :
                    /\ ~IsSpace(SubSeq(text, i, i))
                    /\ (i = 1 \/ IsSpace(SubSeq(text, i - 1, i - 1))) })

(* text.count(c) for a one-character c *)
CountChar(text, c) ==
    Cardinality({ i \in 1..Len(text) : SubSeq(text, i, i) = c })

(* sum(1 for word in words if word in text) *)
CountContained(words, text) ==
    Once(LAMBDA t : Len(SelectSeq(words, LAMBDA w : Contains(w, t))), text)

(* sum(F(response) for response in user_responses) *)
SumOver(F(_), user_responses) ==
    LET RECURSIVE Sum(_)
        Sum(i) == IF i > Len(user_responses) THEN 0
                  ELSE F(user_responses[i]) + Sum(i + 1)
    IN Sum(1)

emotional_words ==
    << "love", "passionate", "excited", "energized", "alive", "frustrated", "concerned",
       "worried", "joyful", "thrilled", "overwhelmed", "blessed", "grateful", "moved" >>

concrete_words ==
    << "specific", "example", "exactly", "precisely", "literally", "actually",
       "definitely", "clearly", "obviously", "specifically" >>

abstract_words ==
    << "generally", "usually", "often", "sometimes", "might", "could",
       "possibly", "perhaps", "maybe", "tend to", "feel like" >>

uncertainty_words ==
    << "not sure", "i think", "maybe", "perhaps", "might be", "could be", "i guess" >>

enthusiasm_words ==
    << "!", "really", "absolutely", "definitely", "totally", "amazing", "wonderful",
       "incredible" >>

(* _default_markers *)
default_markers ==
    [ word_count_avg               |-> Fraction(20, 1),
      emotional_language_frequency |-> Fraction(5, 100),
      question_asking_frequency    |-> Fraction(2, 10),
      concrete_vs_abstract_ratio   |-> Fraction(5, 10),
      uncertainty_indicators       |-> Fraction(1, 10),
      enthusiasm_markers           |-> Fraction(3, 100) ]

(* analyze_communication_patterns *)
analyze_communication_patterns(user_responses) ==
    IF user_responses = << >> THEN default_markers
    ELSE
      LET n == Len(user_responses)
          total_words       == SumOver(WordCount, user_responses)
          emotional_count   == SumOver(LAMBDA r : CountContained(emotional_words, lower(r)),
                                       user_responses)
          question_count    == SumOver(LAMBDA r : CountChar(r, "?"), user_responses)
          concrete_count    == SumOver(LAMBDA r : CountContained(concrete_words, lower(r)),
                                       user_responses)
          abstract_count    == SumOver(LAMBDA r : CountContained(abstract_words, lower(r)),
                                       user_responses)
          uncertainty_count == SumOver(LAMBDA r : CountContained(uncertainty_words, lower(r)),
                                       user_responses)
          enthusiasm_count  == SumOver(LAMBDA r : CountContained(enthusiasm_words, lower(r))
                                                  + CountChar(r, "!"),
                                       user_responses)
      IN [ word_count_avg               |-> Fraction(total_words, n),
           emotional_language_frequency |->
               IF total_words > 0 THEN Fraction(emotional_count, total_words)
               ELSE Fraction(0, 1),
           question_asking_frequency    |-> Fraction(question_count, n),
           concrete_vs_abstract_ratio   |->
               IF concrete_count + abstract_count > 0
               THEN Fraction(concrete_count, concrete_count + abstract_count)
               ELSE Fraction(5, 10),
           uncertainty_indicators       |-> Fraction(uncertainty_count, n),
           enthusiasm_markers           |->
               IF total_words > 0 THEN Fraction(enthusiasm_count, total_words)
               ELSE Fraction(0, 1) ]

(* score += inc in IEEE doubles, for the sums determine_communication_style
   can form: 0.2 + 0.1 and 0.4 + 0.2 round up, 0.7 + 0.1 and 0.7 + 0.2
   round down, 0.8999999999999999 + 0.1 is 0.9999999999999999, every other
   sum is the double nearest to the exact one *)
float_add(score, inc) ==
    LET from == << score.tenths, score.ulps, inc >>
    IN CASE from = << 2, 0, 1 >>  -> [ tenths |-> 3,  ulps |-> 1 ]
         [] from = << 4, 0, 2 >>  -> [ tenths |-> 6,  ulps |-> 1 ]
         [] from = << 6, 1, 1 >>  -> [ tenths |-> 7,  ulps |-> 1 ]
         [] from = << 7, 0, 1 >>  -> [ tenths |-> 8,  ulps |-> -1 ]
         [] from = << 7, 0, 2 >>  -> [ tenths |-> 9,  ulps |-> -1 ]
         [] from = << 9, -1, 1 >> -> [ tenths |-> 10, ulps |-> -1 ]
         [] OTHER -> [ tenths |-> score.tenths + inc, ulps |-> 0 ]

(* the score after a run of `if condition: score += inc` statements *)
AddWhere(steps) ==
    LET RECURSIVE Run(_, _)
        Run(score, i) ==
            IF i > Len(steps) THEN score
            ELSE Once(LAMBDA s : Run(s, i + 1),
                      IF steps[i].condition THEN float_add(score, steps[i].inc) ELSE score)
    IN Run([ tenths |-> 0, ulps |-> 0 ], 1)

FloatGreater(x, y) ==
    x.tenths > y.tenths \/ (x.tenths = y.tenths /\ x.ulps > y.ulps)

(* the four scores of determine_communication_style, in the order they are
   put into style_scores *)
style_scores(m) ==
    << [ style |-> "analytical",
         score |-> AddWhere(<<
             [ condition |-> FractionGreater(m.concrete_vs_abstract_ratio, 6, 10), inc |-> 3 ],
             [ condition |-> FractionGreater(m.word_count_avg, 25, 1),             inc |-> 2 ],
             [ condition |-> FractionLess(m.emotional_language_frequency, 3, 100), inc |-> 2 ],
             [ condition |-> FractionGreater(m.question_asking_frequency, 3, 10),  inc |-> 2 ],
             [ condition |-> FractionLess(m.uncertainty_indicators, 1, 10),        inc |-> 1 ] >>) ],
       [ style |-> "expressive",
         score |-> AddWhere(<<
             [ condition |-> FractionGreater(m.emotional_language_frequency, 1, 100), inc |-> 3 ],
             [ condition |-> FractionGreater(m.enthusiasm_markers, 2, 100),           inc |-> 3 ],
             [ condition |-> FractionGreater(m.word_count_avg, 20, 1),                inc |-> 2 ],
             [ condition |-> FractionLess(m.concrete_vs_abstract_ratio, 4, 10),       inc |-> 2 ] >>) ],
       [ style |-> "practical",
         score |-> AddWhere(<<
             [ condition |-> FractionLess(m.word_count_avg, 15, 1),                inc |-> 3 ],
             [ condition |-> FractionGreater(m.concrete_vs_abstract_ratio, 7, 10), inc |-> 3 ],
             [ condition |-> FractionLess(m.emotional_language_frequency, 4, 100), inc |-> 2 ],
             [ condition |-> FractionLess(m.question_asking_frequency, 2, 10),     inc |-> 2 ] >>) ],
       [ style |-> "reflective",
         score |-> AddWhere(<<
             [ condition |-> FractionGreater(m.uncertainty_indicators, 15, 100),   inc |-> 3 ],
             [ condition |-> FractionGreater(m.word_count_avg, 30, 1),             inc |-> 2 ],
             [ condition |-> FractionGreater(m.question_asking_frequency, 25, 100), inc |-> 2 ],
             [ condition |-> FractionLess(m.concrete_vs_abstract_ratio, 5, 10),    inc |-> 2 ],
             [ condition |-> /\ FractionGreater(m.emotional_language_frequency, 3, 100)
                             /\ FractionLess(m.emotional_language_frequency, 8, 100),
               inc |-> 1 ] >>) ] >>

(* determine_communication_style, were the last of the highest scores taken *)
determine_communication_style_last_maximal(m) ==
    LET scores == style_scores(m)
        RECURSIVE Max(_, _)
        Max(best, i) ==
            IF i > Len(scores) THEN best
            ELSE Once(LAMBDA b : Max(b, i + 1),
                      IF FloatGreater(best.score, scores[i].score) THEN best ELSE scores[i])
    IN Once(LAMBDA primary_style :
                [ style |-> primary_style.style, confidence |-> primary_style.score ],
            Max(scores[1], 2))

(* determine_communication_style: max(style_scores.items(), key = score)
   is the first entry no later entry exceeds *)
determine_communication_style(m) ==
    LET scores == style_scores(m)
        RECURSIVE Max(_, _)
        Max(best, i) ==
            IF i > Len(scores) THEN best
            ELSE Once(LAMBDA b : Max(b, i + 1),
                      IF FloatGreater(scores[i].score, best.score) THEN scores[i] ELSE best)
    IN Once(LAMBDA primary_style :
                [ style |-> primary_style.style, confidence |-> primary_style.score ],
            Max(scores[1], 2))

(* determine_response_depth *)
determine_response_depth(m) ==
    IF FractionLess(m.word_count_avg, 12, 1) THEN "brief"
    ELSE IF FractionGreater(m.word_count_avg, 35, 1) THEN "detailed"
    ELSE "moderate"

(* _generate_adaptations *)
generate_adaptations(style, depth, m) ==
    ( CASE style = "analytical" ->
              << "Use structured, logical responses",
                 "Include specific examples and data points",
                 "Avoid overly emotional language",
                 "Ask clarifying questions for precision" >>
        [] style = "expressive" ->
              << "Use warm, encouraging language",
                 "Include emotional validation",
                 "Use vivid, descriptive language",
                 "Match their enthusiasm level" >>
        [] style = "practical" ->
              << "Keep responses concise and actionable",
                 "Focus on concrete next steps",
                 "Avoid excessive elaboration",
                 "Be direct and clear" >>
        [] style = "reflective" ->
              << "Allow processing time between questions",
                 "Use thoughtful, introspective language",
                 "Validate their careful consideration",
                 "Ask open-ended, reflective questions" >>
        [] OTHER -> << >> )
    \o ( IF depth = "brief" THEN << "Keep responses shorter and more focused" >>
         ELSE IF depth = "detailed" THEN << "Provide comprehensive, thorough responses" >>
         ELSE << >> )
    \o ( IF FractionGreater(m.uncertainty_indicators, 2, 10)
         THEN << "Provide reassurance and normalize uncertainty" >> ELSE << >> )
    \o ( IF FractionGreater(m.enthusiasm_markers, 5, 100)
         THEN << "Match and encourage their positive energy" >> ELSE << >> )

(* build_communication_profile: the profile it returns and stores; NoProfile
   stands for None, in which case current_profile is left as it is *)
build_communication_profile(user_responses) ==
    IF Len(user_responses) < min_samples_for_profile THEN NoProfile
    ELSE LET Profile(markers) ==
               LET preferred_depth == determine_response_depth(markers)
                   Styled(primary) ==
                       [ primary_style   |-> primary.style,
                         secondary_style |-> "None",
                         preferred_depth |-> preferred_depth,
                         confidence      |-> primary.confidence,
                         markers         |-> markers,
                         adaptations     |-> generate_adaptations(primary.style,
                                                                  preferred_depth, markers) ]
               IN Once(Styled, determine_communication_style(markers))
         IN Once(Profile, analyze_communication_patterns(user_responses))

(* update_profile, were a profile once built kept for good *)
update_profile_keeping_profile(pp, new_response) ==
    Once(LAMBDA samples :
             [ pp EXCEPT
                 !.communication_samples = samples,
                 !.current_profile =
                     IF Len(samples) >= min_samples_for_profile /\ @ = NoProfile
                     THEN build_communication_profile(samples)
                     ELSE @ ],
         Append(pp.communication_samples, new_response))

(* update_profile: the profiler after the call *)
update_profile(pp, new_response) ==
    Once(LAMBDA samples :
             [ pp EXCEPT
                 !.communication_samples = samples,
                 !.current_profile =
                     IF Len(samples) >= min_samples_for_profile
                     THEN build_communication_profile(samples)
                     ELSE @ ],
         Append(pp.communication_samples, new_response))

-----------------------------------------------------------------------------
(* SkillsPassionsAnalyzer: analysis_engine.py:11-260.
   A dict of counts is the sequence of its items [key, count] in insertion
   order. *)

(* skill_keywords, in dict order *)
skill_keywords ==
    << [category |-> "teaching",
        keywords |-> <<"teach", "mentor", "guide", "explain", "instruct", "train", "educate", "coach">>],
       [category |-> "leadership",
        keywords |-> <<"lead", "manage", "organize", "coordinate", "direct", "supervise", "delegate">>],
       [category |-> "communication",
        keywords |-> <<"speak", "write", "present", "communicate", "express", "articulate", "convey">>],
       [category |-> "helping",
        keywords |-> <<"help", "assist", "support", "serve", "care", "counsel", "encourage", "comfort">>],
       [category |-> "creative",
        keywords |-> <<"create", "design", "artistic", "creative", "imagine", "innovate", "craft", "build">>],
       [category |-> "analytical",
        keywords |-> <<"analyze", "research", "investigate", "study", "examine", "solve", "logical">>],
       [category |-> "administrative",
        keywords |-> <<"organize", "plan", "schedule", "coordinate", "detail", "systematic">>],
       [category |-> "technical",
        keywords |-> <<"technical", "technology", "programming", "engineering", "computing", "digital">>] >>

(* passion_keywords, in dict order *)
passion_keywords ==
    << [category |-> "people",
        keywords |-> <<"people", "relationships", "community", "social", "family", "friends", "connection">>],
       [category |-> "justice",
        keywords |-> <<"justice", "fair", "equality", "rights", "advocacy", "change", "reform">>],
       [category |-> "nature",
        keywords |-> <<"nature", "environment", "outdoors", "animals", "earth", "conservation">>],
       [category |-> "creativity",
        keywords |-> <<"art", "music", "creative", "beauty", "expression", "imagination", "design">>],
       [category |-> "learning",
        keywords |-> <<"learn", "knowledge", "education", "study", "growth", "discovery", "wisdom">>],
       [category |-> "service",
        keywords |-> <<"serve", "volunteer", "giving", "ministry", "mission", "charity", "helping">>],
       [category |-> "innovation",
        keywords |-> <<"innovation", "technology", "progress", "future", "advancement", "improvement">>],
       [category |-> "healing",
        keywords |-> <<"health", "healing", "wellness", "medical", "therapy", "recovery", "wholeness">>] >>

(* themes[key] += n on a defaultdict(int): a new key goes to the end *)
Increment(themes, key, n) ==
    IF n = 0 THEN themes
    ELSE IF \E i \in 1..Len(themes) : themes[i].key = key
    THEN [ i \in 1..Len(themes) |->
             IF themes[i].key = key
             THEN [ themes[i] EXCEPT !.count = @ + n ] ELSE themes[i] ]
    ELSE Append(themes, [ key |-> key, count |-> n ])

(* the loop of extract_themes that stops at the first keyword of a category
   found in the response *)
CountCategories_one_hit_per_category(themes, table, response_lower) ==
    LET RECURSIVE Loop(_, _)
        Loop(th, k) ==
            IF k > Len(table) THEN th
            ELSE Once(LAMBDA th1 : Loop(th1, k + 1),
                      Increment(th, table[k].category,
                                IF \E n \in 1..Len(table[k].keywords) :
                                      Contains(table[k].keywords[n], response_lower)
                                THEN 1 ELSE 0))
    IN Loop(themes, 1)

(* the loop of extract_themes over the categories of one keyword table for
   one lower-cased response: one hit per keyword that occurs in it *)
CountCategories(themes, table, response_lower) ==
    LET RECURSIVE Loop(_, _)
        Loop(th, k) ==
            IF k > Len(table) THEN th
            ELSE Once(LAMBDA th1 : Loop(th1, k + 1),
                      Increment(th, table[k].category,
                                Len(SelectSeq(table[k].keywords,
                                              LAMBDA kw : Contains(kw, response_lower)))))
    IN Loop(themes, 1)

(* extract_themes restricted to the keys with one prefix, the prefix
   removed: skill_keywords for "skill_", passion_keywords for "passion_".
   The keys of the two tables are apart, so the items of one prefix keep the
   order they have in the whole dict. *)
extract_themes(table, responses) ==
    LET RECURSIVE Loop(_, _)
        Loop(th, i) ==
            IF i > Len(responses) THEN th
            ELSE Once(LAMBDA th1 : Loop(th1, i + 1),
                      Once(LAMBDA response_lower : CountCategories(th, table, response_lower),
                           lower(responses[i])))
    IN Loop(<< >>, 1)

(* sorted(items, key=count, reverse=True): descending counts, items of equal
   count in the order they have in the dict *)
SortedByCount(themes) ==
    LET RECURSIVE Insert(_, _)
        Insert(sorted, item) ==
            IF sorted = << >> THEN << item >>
            ELSE IF item.count > sorted[Len(sorted)].count
            THEN Append(Insert(SubSeq(sorted, 1, Len(sorted) - 1), item),
                        sorted[Len(sorted)])
            ELSE Append(sorted, item)
        RECURSIVE Sort(_)
        Sort(n) == IF n = 0 THEN << >>
                   ELSE Once(LAMBDA sorted : Insert(sorted, themes[n]), Sort(n - 1))
    IN Sort(Len(themes))

(* top_skills and top_passions taken from themes that start with a count of
   zero for every category of the table *)
top_categories_zero_counts(table, stage_responses) ==
    IF stage_responses = << >> THEN << >>
    ELSE LET zeros == [ k \in 1..Len(table) |-> [ key |-> table[k].category, count |-> 0 ] ]
             counted == extract_themes(table, [ i \in 1..Len(stage_responses) |->
                                                  stage_responses[i].response ])
             Count(key) == IF \E i \in 1..Len(counted) : counted[i].key = key
                           THEN (CHOOSE i \in 1..Len(counted) : counted[i].key = key)
                           ELSE 0
             Top(sorted) ==
                 [ i \in 1..(IF Len(sorted) < 3 THEN Len(sorted) ELSE 3) |-> sorted[i].key ]
         IN Once(Top, SortedByCount(
                          [ k \in 1..Len(zeros) |->
                              [ key   |-> zeros[k].key,
                                count |-> IF Count(zeros[k].key) = 0 THEN 0
                                          ELSE counted[Count(zeros[k].key)].count ] ]))

(* top_skills of analyze_skills and top_passions of analyze_passions: the
   keys of the first three sorted items; the empty list for no responses,
   where the analysis is {} *)
top_categories(table, stage_responses) ==
    IF stage_responses = << >> THEN << >>
    ELSE LET Top(sorted) ==
                 [ i \in 1..(IF Len(sorted) < 3 THEN Len(sorted) ELSE 3) |-> sorted[i].key ]
         IN Once(Top, SortedByCount(
                          extract_themes(table,
                                         [ i \in 1..Len(stage_responses) |->
                                             stage_responses[i].response ])))

(* analyze_skills and analyze_passions: {} for no responses, else the
   themes of the table's prefix, the top three keys, and their counts *)
analyze(table, stage_responses) ==
    IF stage_responses = << >> THEN [ kind |-> "empty" ]
    ELSE LET response_texts == [ i \in 1..Len(stage_responses) |->
                                   stage_responses[i].response ]
             Result(themes) ==
                 LET sorted == SortedByCount(themes)
                     top == [ i \in 1..(IF Len(sorted) < 3 THEN Len(sorted) ELSE 3) |->
                                sorted[i] ]
                 IN [ kind          |-> "analysis",
                      raw_responses |-> response_texts,
                      themes        |-> themes,
                      top           |-> [ i \in 1..Len(top) |-> top[i].key ],
                      scores        |-> top ]
         IN Once(Result, extract_themes(table, response_texts))

analyze_skills(skills_responses) == analyze(skill_keywords, skills_responses)

analyze_passions(passion_responses) == analyze(passion_keywords, passion_responses)

-----------------------------------------------------------------------------
(* SpiritualGiftsAssessment: scoring_system.py:12-283.
   A sub-score (matches / required) * 25 and the total are counted in
   twelfths of a point, the rounded total_score in tenths: the required
   lists have 2, 3 or 4 entries, and for every number of matches the float
   sum of the four sub-scores falls on the same side of each strength
   threshold, and rounds to the same tenth, as the exact sum. *)

(* gifts_framework, in dict order *)
gifts_framework ==
    << [gift_name |-> "teaching",
        description |-> "The ability to understand and communicate truth effectively",
        key_indicators |->
            [ skills   |-> <<"teaching", "communication", "analytical">>,
              passions |-> <<"learning", "people">>,
              values   |-> <<"truth", "growth", "education", "understanding">> ],
        behavioral_markers |->
            << "Others seek you out for explanations",
               "You enjoy breaking down complex concepts",
               "You feel satisfied when others understand",
               "You naturally use examples and illustrations" >>,
        typical_expressions |->
            << "Formal teaching or training",
               "Mentoring and coaching",
               "Writing instructional content",
               "Creating educational resources" >>],
       [gift_name |-> "leadership",
        description |-> "The ability to inspire and guide others toward goals",
        key_indicators |->
            [ skills   |-> <<"leadership", "communication", "administrative">>,
              passions |-> <<"people", "service", "justice">>,
              values   |-> <<"vision", "purpose", "teamwork", "progress">> ],
        behavioral_markers |->
            << "People naturally follow your direction",
               "You see the big picture and future possibilities",
               "You motivate others to achieve more",
               "You take initiative in group situations" >>,
        typical_expressions |->
            << "Team or organization leadership",
               "Project management",
               "Community organizing",
               "Visionary planning" >>],
       [gift_name |-> "mercy",
        description |-> "Deep compassion that moves you to help those who suffer",
        key_indicators |->
            [ skills   |-> <<"helping", "communication">>,
              passions |-> <<"people", "healing", "justice">>,
              values   |-> <<"compassion", "kindness", "healing", "restoration">> ],
        behavioral_markers |->
            << "You are deeply moved by others suffering",
               "You offer comfort naturally",
               "You attract people who need encouragement",
               "You see good in difficult people" >>,
        typical_expressions |->
            << "Counseling and support",
               "Healthcare and healing",
               "Working with marginalized people",
               "Crisis intervention" >>],
       [gift_name |-> "administration",
        description |-> "The ability to organize and coordinate for effective ministry",
        key_indicators |->
            [ skills   |-> <<"administrative", "leadership", "analytical">>,
              passions |-> <<"service", "people">>,
              values   |-> <<"order", "efficiency", "stewardship", "service">> ],
        behavioral_markers |->
            << "You naturally organize and systematize",
               "You see what needs to be done logistically",
               "You coordinate resources effectively",
               "You help others be more productive" >>,
        typical_expressions |->
            << "Event planning and coordination",
               "Business and operations management",
               "Resource allocation",
               "Systems development" >>],
       [gift_name |-> "serving",
        description |-> "Joy in meeting practical needs and supporting others",
        key_indicators |->
            [ skills   |-> <<"helping", "administrative">>,
              passions |-> <<"service", "people">>,
              values   |-> <<"service", "humility", "helpfulness", "support">> ],
        behavioral_markers |->
            << "You prefer to work behind the scenes",
               "You notice practical needs others miss",
               "You find joy in helping tasks get done",
               "You work well under others leadership" >>,
        typical_expressions |->
            << "Volunteer coordination",
               "Hospitality and events",
               "Maintenance and support",
               "Administrative assistance" >>],
       [gift_name |-> "encouraging",
        description |-> "The ability to motivate and build up others",
        key_indicators |->
            [ skills   |-> <<"communication", "helping">>,
              passions |-> <<"people", "healing">>,
              values   |-> <<"hope", "growth", "potential", "encouragement">> ],
        behavioral_markers |->
            << "You see potential in others",
               "You naturally motivate and inspire",
               "People feel better after talking with you",
               "You focus on solutions and possibilities" >>,
        typical_expressions |->
            << "Life coaching and mentoring",
               "Motivational speaking",
               "Counseling and therapy",
               "Team building and development" >>],
       [gift_name |-> "giving",
        description |-> "Joy in sharing resources generously for kingdom purposes",
        key_indicators |->
            [ skills   |-> <<"administrative", "analytical">>,
              passions |-> <<"service", "justice">>,
              values   |-> <<"generosity", "stewardship", "impact", "justice">> ],
        behavioral_markers |->
            << "You give quietly and consistently",
               "You research where gifts will have most impact",
               "You motivate others to give",
               "You see resources as tools for good" >>,
        typical_expressions |->
            << "Philanthropy and donations",
               "Fundraising and development",
               "Financial planning for ministry",
               "Resource mobilization" >>],
       [gift_name |-> "creativity",
        description |-> "Using artistic gifts to inspire and communicate truth",
        key_indicators |->
            [ skills   |-> <<"creative", "communication">>,
              passions |-> <<"creativity", "people", "service">>,
              values   |-> <<"beauty", "expression", "inspiration", "truth">> ],
        behavioral_markers |->
            << "You express yourself through artistic means",
               "You use creativity to communicate deeper truths",
               "You inspire others through your art",
               "You see beauty and meaning in everyday things" >>,
        typical_expressions |->
            << "Visual and performing arts",
               "Creative writing and storytelling",
               "Design and aesthetics",
               "Worship and celebration arts" >>] >>

\* the points of each of the four sub-scores
ComponentPoints == 25

(* str.split(): the maximal runs of characters other than white space, in
   the order of their first characters *)
split(text) ==
    LET Words(t) ==
          LET NotSpace(i) == ~IsSpace(SubSeq(t, i, i))
              EndOf(i) == CHOOSE j \in i..Len(t) :
                              /\ \A k \in i..j : NotSpace(k)
                              /\ (j = Len(t) \/ ~NotSpace(j + 1))
              Word(starts, n) ==
                  LET i == CHOOSE x \in starts : Cardinality({ y \in starts : y <= x }) = n
                  IN SubSeq(t, i, EndOf(i))
              All(starts) == [ n \in 1..Cardinality(starts) |-> Word(starts, n) ]
          IN Once(All, { i \in 1..Len(t) : NotSpace(i) /\ (i = 1 \/ ~NotSpace(i - 1)) })
    IN Once(Words, text)

(* marker.lower().split() for every behavioral marker of every gift *)
marker_keywords ==
    [ g \in 1..Len(gifts_framework) |->
        [ m \in 1..Len(gifts_framework[g].behavioral_markers) |->
            split(lower(gifts_framework[g].behavioral_markers[m])) ] ]

(* user_responses.get(stage, []) *)
responses_of(user_responses, stage) ==
    IF stage \in DOMAIN user_responses THEN user_responses[stage] ELSE << >>

(* (matches / required) * 25, in twelfths of a point *)
Share(matches, required) == (12 * ComponentPoints * matches) \div required

(* round(total, 1) of a total in twelfths of a point, in tenths: to the
   nearest tenth, a tie to the even one *)
RoundToTenths(total) ==
    LET q == (10 * total) \div 12
        r == (10 * total) % 12
    IN IF r < 6 THEN q
       ELSE IF r > 6 THEN q + 1
       ELSE IF q % 2 = 0 THEN q ELSE q + 1

(* _categorize_gift_strength that calls a score Strong from 60 points on *)
categorize_gift_strength_strong_from_60(score) ==
    IF score >= 12 * 70 THEN "Dominant"
    ELSE IF score >= 12 * 60 THEN "Strong"
    ELSE IF score >= 12 * 30 THEN "Moderate"
    ELSE IF score >= 12 * 15 THEN "Emerging"
    ELSE "Low"

(* _categorize_gift_strength, of a score in twelfths of a point *)
categorize_gift_strength(score) ==
    IF score >= 12 * 70 THEN "Dominant"
    ELSE IF score >= 12 * 50 THEN "Strong"
    ELSE IF score >= 12 * 30 THEN "Moderate"
    ELSE IF score >= 12 * 15 THEN "Emerging"
    ELSE "Low"

(* _calculate_individual_gift_score for the gift at position g of
   gifts_framework; values_text and all_responses_text are the joined
   lower-cased answers of the values stage and of all stages *)
calculate_individual_gift_score(g, top_skills, top_passions, values_text, all_responses_text) ==
    LET gift_info == gifts_framework[g]
        user_skills == { top_skills[i] : i \in 1..Len(top_skills) }
        required_skills ==
            { gift_info.key_indicators.skills[i] : i \in 1..Len(gift_info.key_indicators.skills) }
        user_passions == { top_passions[i] : i \in 1..Len(top_passions) }
        required_passions ==
            { gift_info.key_indicators.passions[i] : i \in 1..Len(gift_info.key_indicators.passions) }
        required_values == gift_info.key_indicators.values
        values_matches ==
            Len(SelectSeq(required_values, LAMBDA value : Contains(value, values_text)))
        behavioral_matches ==
            Cardinality({ m \in 1..Len(gift_info.behavioral_markers) :
                            \E k \in 1..Len(marker_keywords[g][m]) :
                                Contains(marker_keywords[g][m][k], all_responses_text) })
        Result(score_components) ==
            LET total_score == score_components.skills_alignment
                                 + score_components.passions_alignment
                                 + score_components.values_alignment
                                 + score_components.response_content
            IN [ total_score         |-> RoundToTenths(total_score),
                 score_components    |-> score_components,
                 strength            |-> categorize_gift_strength(total_score),
                 description         |-> gift_info.description,
                 key_indicators      |-> gift_info.key_indicators,
                 typical_expressions |-> gift_info.typical_expressions ]
    IN Once(Result,
            [ skills_alignment   |->
                  IF user_skills # {} /\ required_skills # {}
                  THEN Share(Cardinality(user_skills \cap required_skills),
                             Cardinality(required_skills))
                  ELSE 0,
              passions_alignment |->
                  IF user_passions # {} /\ required_passions # {}
                  THEN Share(Cardinality(user_passions \cap required_passions),
                             Cardinality(required_passions))
                  ELSE 0,
              values_alignment   |->
                  IF required_values # << >>
                  THEN Share(values_matches, Len(required_values)) ELSE 0,
              response_content   |->
                  IF gift_info.behavioral_markers # << >>
                  THEN Share(behavioral_matches, Len(gift_info.behavioral_markers)) ELSE 0 ])

(* the gift_scores dict of calculate_gift_scores: one item per gift, in the
   order of gifts_framework *)
score_all_gifts(user_responses) ==
    LET Scores(top_skills, top_passions, values_text, all_responses_text) ==
            [ g \in 1..Len(gifts_framework) |->
                [ key   |-> gifts_framework[g].gift_name,
                  value |-> calculate_individual_gift_score(
                                g, top_skills, top_passions, values_text,
                                all_responses_text) ] ]
        values_responses == responses_of(user_responses, "values_clarification")
    IN \* each argument is computed once: TLC evaluates a CHOOSE set eagerly
       CHOOSE r \in
         { Scores(ts, tp, vt, at) :
             ts \in { top_categories(skill_keywords,
                                     responses_of(user_responses, "skills_assessment")) },
             tp \in { top_categories(passion_keywords,
                                     responses_of(user_responses, "passion_exploration")) },
             vt \in { JoinWithSpace([ i \in 1..Len(values_responses) |->
                                        lower(values_responses[i].response) ]) },
             at \in { lower(JoinWithSpace(AllResponses(user_responses))) } } : TRUE

(* calculate_gift_scores that takes the answers of the values stage out of
   the corpus it was given *)
calculate_gift_scores_consuming(user_responses) ==
    [ user_responses |-> [ user_responses EXCEPT !["values_clarification"] = << >> ],
      gift_scores    |-> score_all_gifts(user_responses) ]

(* calculate_gift_scores: the corpus after the call and the returned dict *)
calculate_gift_scores(user_responses) ==
    [ user_responses |-> user_responses,
      gift_scores    |-> score_all_gifts(user_responses) ]

-----------------------------------------------------------------------------
(* The interview programs: DiscoveryBot (discovery_engine.py:237-358) and
   EnhancedSpiritualDiscoveryBot (enhanced_discovery_bot.py:30-376).
   bot holds the program that runs, its position pc ("start" before the
   first question, "loop" at input(), "ended" after the loop was left,
   "raised" after an exception left the program), the fields
   conversation_stage and total_exchanges of EnhancedSpiritualDiscoveryBot
   (DiscoveryBot has neither and leaves them alone), the line input()
   returned last, the local user_input, the reply the generation
   collaborator gave last, and the arguments of the print statements of the
   last iteration (a report of several lines is its first line). *)

Programs == {"DiscoveryBot", "EnhancedSpiritualDiscoveryBot"}

NoResponse == [ kind |-> "None", text |-> "None" ]

(* no method of the analyzer has been called *)
NoAnalysis == [ method |-> "None", responses |-> << >>, result |-> [ kind |-> "None" ] ]

(* no call of calculate_gift_scores made yet *)
NoScoring == [ user_responses |-> << >>, gift_scores |-> << >>, repeated |-> FALSE ]

NewBot(program) ==
    [ program            |-> program,
      pc                 |-> "start",
      conversation_stage |-> "introduction",
      total_exchanges    |-> 0,
      line               |-> "",
      user_input         |-> "",
      response           |-> NoResponse,
      printed            |-> << >> ]

-----------------------------------------------------------------------------
(* The stage machine driven by its three operations *)

Init ==
    /\ discovery_session = NewDiscoverySession("s0")
    /\ session_file = [kind |-> "absent"]
    /\ loads = 0
    /\ context_manager = NewContextManager
    /\ context_file = [kind |-> "absent"]
    /\ exchanges = 0
    /\ personality_profiler = NewPersonalityProfiler
    /\ dynamic_questioner = NewDynamicQuestioningEngine
    /\ bot = NewBot("EnhancedSpiritualDiscoveryBot")
    /\ engine_call = NoCall
    /\ scoring_call = NoScoring
    /\ analysis_call = NoAnalysis
    /\ args = << >>
    /\ op = "init"
    /\ ret = "None"

GetNextQuestion ==
    LET r == get_next_question(discovery_session)
    IN /\ discovery_session' = r.s
       /\ op' = "get_next_question"
       /\ ret' = r.ret
       /\ UNCHANGED <<session_file, loads, contextVars, botVars>>

ProcessResponseUpTo(max) ==
    \E text \in SessionTexts :
        /\ \/ total_responses(discovery_session) < max
           \/ get_current_stage(discovery_session) = "completed"
        /\ LET r == process_response(discovery_session, text)
           IN /\ discovery_session' = r.s
              /\ ret' = r.ret
        /\ op' = "process_response"
        /\ UNCHANGED <<session_file, loads, contextVars, botVars>>

ProcessResponse == ProcessResponseUpTo(MaxResponses)

AdvanceToNextStage ==
    /\ discovery_session' = advance_to_next_stage(discovery_session)
    /\ op' = "_advance_to_next_stage"
    /\ ret' = "None"
    /\ UNCHANGED <<session_file, loads, contextVars, botVars>>

SessionNext ==
    \/ GetNextQuestion
    \/ ProcessResponse
    \/ AdvanceToNextStage

SessionSpec == Init /\ [][SessionNext]_vars

-----------------------------------------------------------------------------
(* Persistence of the session: save_session / load_session.
   A file is [kind |-> "absent"] (no such file), [kind |-> "garbage"] (not
   valid JSON) or [kind |-> "json", data |-> d] with d the JSON object, a
   function from its keys to their values. *)

(* get_session_summary; completion_percentage (a float) as the fraction
   num / den *)
get_session_summary(s) ==
    [ session_id            |-> s.session_id,
      current_stage         |-> get_current_stage(s),
      progress              |-> s.stage_progress,
      total_responses       |-> total_responses(s),
      completion_percentage |-> [num |-> s.current_stage * 100, den |-> Len(stages)] ]

(* save_session that leaves the answers out of the record *)
session_data_without_responses(s) ==
    [ session_id     |-> s.session_id,
      created        |-> "isoformat",
      current_stage  |-> s.current_stage,
      stage_progress |-> s.stage_progress,
      summary        |-> get_session_summary(s) ]

(* save_session: the JSON object written (json.dump keeps string keys,
   lists, ints, bools and strings as they are) *)
session_data(s) ==
    [ session_id     |-> s.session_id,
      created        |-> "isoformat",
      current_stage  |-> s.current_stage,
      stage_progress |-> s.stage_progress,
      user_responses |-> s.user_responses,
      summary        |-> get_session_summary(s) ]

(* the keys load_session reads, in the order it reads them *)
LoadedKeys == << "session_id", "current_stage", "stage_progress", "user_responses" >>

(* load_session: the four assignments run in order; a missing key raises
   KeyError at its assignment, after the earlier ones have taken effect.
   Returns the session after the call and the returned flag. *)
load_session(s, f) ==
    IF f.kind = "absent" THEN [ s |-> s, ret |-> "False" ]       \* FileNotFoundError
    ELSE IF f.kind = "garbage" THEN [ s |-> s, ret |-> "False" ] \* JSONDecodeError
    ELSE
      LET d  == f.data
          s1 == [ s  EXCEPT !.session_id     = d["session_id"] ]
          s2 == [ s1 EXCEPT !.current_stage  = d["current_stage"] ]
          s3 == [ s2 EXCEPT !.stage_progress = d["stage_progress"] ]
          s4 == [ s3 EXCEPT !.user_responses = d["user_responses"] ]
      IN IF "session_id" \notin DOMAIN d     THEN [ s |-> s,  ret |-> "False" ]
         ELSE IF "current_stage" \notin DOMAIN d  THEN [ s |-> s1, ret |-> "False" ]
         ELSE IF "stage_progress" \notin DOMAIN d THEN [ s |-> s2, ret |-> "False" ]
         ELSE IF "user_responses" \notin DOMAIN d THEN [ s |-> s3, ret |-> "False" ]
         ELSE [ s |-> s4, ret |-> "True" ]

(* what a reader may find where save_session wrote f: the file itself, a
   file that is no JSON, or the record short of one key *)
DropKey(d, k) == [ x \in (DOMAIN d) \ {k} |-> d[x] ]

FileVariants(f) ==
    IF f.kind # "json" THEN {f}
    ELSE {f, [kind |-> "garbage"]}
         \cup { [kind |-> "json", data |-> DropKey(f.data, LoadedKeys[i])]
                : i \in 1..Len(LoadedKeys) }

SaveSession ==
    /\ session_file' = [kind |-> "json", data |-> session_data(discovery_session)]
    /\ op' = "save_session"
    /\ ret' = "filename"
    /\ UNCHANGED <<discovery_session, loads, contextVars, botVars>>

LoadSession ==
    /\ loads < MaxLoads
    /\ \E f \in FileVariants(session_file) :
          LET r == load_session(discovery_session, f)
          IN /\ discovery_session' = r.s
             /\ ret' = r.ret
    /\ loads' = loads + 1
    /\ op' = "load_session"
    /\ UNCHANGED <<session_file, contextVars, botVars>>

(* a new DiscoverySession is constructed (DiscoveryBot.__init__) *)
NewSession ==
    \E id \in SessionIds :
        /\ discovery_session' = NewDiscoverySession(id)
        /\ op' = "new_session"
        /\ ret' = "None"
        /\ UNCHANGED <<session_file, loads, contextVars, botVars>>

(* the stage machine with save_session *)
SaveNext ==
    \/ GetNextQuestion
    \/ ProcessResponseUpTo(MaxSaveResponses)
    \/ AdvanceToNextStage
    \/ SaveSession

SaveSpec == Init /\ [][SaveNext]_vars

(* the stage machine with save_session, load_session and new sessions *)
LoadNext ==
    \/ GetNextQuestion
    \/ ProcessResponseUpTo(MaxLoadResponses)
    \/ AdvanceToNextStage
    \/ SaveSession
    \/ LoadSession
    \/ NewSession

LoadSpec == Init /\ [][LoadNext]_vars

-----------------------------------------------------------------------------
(* The context manager driven by add_exchange and save_context *)

AddExchangeUpTo(max) ==
    /\ exchanges < max
    /\ \E x \in ContextInputs :
          context_manager' =
              add_exchange(context_manager, x.user_input, x.bot_response, x.stage)
    /\ exchanges' = exchanges + 1
    /\ op' = "add_exchange"
    /\ ret' = "None"
    /\ UNCHANGED <<sessionVars, context_file, botVars>>

SaveContext ==
    /\ context_file' = [kind |-> "json", data |-> context_data(context_manager)]
    /\ op' = "save_context"
    /\ ret' = "None"
    /\ UNCHANGED <<sessionVars, context_manager, exchanges, botVars>>

ContextNext == AddExchangeUpTo(MaxExchanges)

ContextSpec == Init /\ [][ContextNext]_vars

AddMemoryExchange ==
    /\ exchanges < MaxMemoryExchanges
    /\ \E x \in MemoryInputs :
          context_manager' =
              add_exchange(context_manager, x.user_input, x.bot_response, x.stage)
    /\ exchanges' = exchanges + 1
    /\ op' = "add_exchange"
    /\ ret' = "None"
    /\ UNCHANGED <<sessionVars, context_file, botVars>>

MemoryNext == AddMemoryExchange

MemorySpec == Init /\ [][MemoryNext]_vars

-----------------------------------------------------------------------------
(* The questioning engine driven by its callers: answers are recorded in
   the session, whose user_responses is the corpus handed to the engine. *)

RecordAnswer ==
    /\ total_responses(discovery_session) < MaxQuestionResponses
    /\ \E text \in QuestionTexts :
         LET r == process_response(discovery_session, text)
         IN /\ discovery_session' = r.s
            /\ ret' = r.ret
    /\ op' = "process_response"
    /\ UNCHANGED <<session_file, loads, contextVars, botVars>>

NextStage ==
    /\ discovery_session.current_stage < MaxQuestionStage
    /\ discovery_session' = advance_to_next_stage(discovery_session)
    /\ op' = "_advance_to_next_stage"
    /\ ret' = "None"
    /\ UNCHANGED <<session_file, loads, contextVars, botVars>>

(* generate_next_question as get_next_intelligent_question calls it: on the
   corpus, the current stage and the answer recorded last *)
GenerateNextQuestion ==
    /\ Len(dynamic_questioner.response_patterns) < MaxPatternHistory
    /\ discovery_session.user_responses[get_current_stage(discovery_session)] # << >>
    /\ \E stage_responses \in { discovery_session.user_responses[get_current_stage(discovery_session)] } :
       \E last_response \in { stage_responses[Len(stage_responses)].response } :
         \E g \in { generate_next_question(dynamic_questioner,
                                           discovery_session.user_responses,
                                           get_current_stage(discovery_session),
                                           last_response) } :
            /\ dynamic_questioner' = g.dq
            /\ engine_call' =
                  [ current_stage  |-> get_current_stage(discovery_session),
                    last_response  |-> last_response,
                    response_count |-> 0,
                    new_patterns   |-> SubSeq(g.dq.response_patterns,
                                              Len(dynamic_questioner.response_patterns) + 1,
                                              Len(g.dq.response_patterns)),
                    question       |-> g.question ]
    /\ op' = "generate_next_question"
    /\ ret' = "None"
    /\ UNCHANGED <<sessionVars, contextVars, personality_profiler, bot, scoring_call, analysis_call, args>>

ShouldContinueCurrentStage ==
    /\ \E stage \in ContinueStages, response_count \in 0..MaxResponseCount :
          /\ engine_call' = [ NoCall EXCEPT !.current_stage = stage,
                                            !.response_count = response_count ]
          /\ ret' = IF should_continue_current_stage(dynamic_questioner, stage, response_count)
                    THEN "True" ELSE "False"
    /\ op' = "should_continue_current_stage"
    /\ UNCHANGED <<sessionVars, contextVars, personality_profiler, dynamic_questioner, bot,
                   scoring_call, analysis_call, args>>

QuestionNext ==
    \/ RecordAnswer
    \/ NextStage
    \/ GenerateNextQuestion

QuestionSpec == Init /\ [][QuestionNext]_vars

ContinueNext ==
    \/ RecordAnswer
    \/ GenerateNextQuestion
    \/ ShouldContinueCurrentStage

ContinueSpec == Init /\ [][ContinueNext]_vars

(* The scoring system driven by its callers: the corpus is the session's
   user_responses *)
RecordAssessmentAnswer ==
    /\ total_responses(discovery_session) < MaxAssessmentResponses
    /\ \E text \in AssessmentTexts :
         LET r == process_response(discovery_session, text)
         IN /\ discovery_session' = r.s
            /\ ret' = r.ret
    /\ op' = "process_response"
    /\ UNCHANGED <<session_file, loads, contextVars, botVars>>

NextAssessmentStage ==
    /\ discovery_session.current_stage < MaxAssessmentStage
    /\ discovery_session' = advance_to_next_stage(discovery_session)
    /\ op' = "_advance_to_next_stage"
    /\ ret' = "None"
    /\ UNCHANGED <<session_file, loads, contextVars, botVars>>

CalculateGiftScores ==
    /\ \E r \in { calculate_gift_scores(discovery_session.user_responses) } :
          /\ discovery_session' = [ discovery_session EXCEPT
                                      !.user_responses = r.user_responses ]
          /\ scoring_call' = [ user_responses |-> discovery_session.user_responses,
                               gift_scores    |-> r.gift_scores,
                               repeated       |-> scoring_call.user_responses
                                                    = discovery_session.user_responses ]
    /\ op' = "calculate_gift_scores"
    /\ ret' = "None"
    /\ UNCHANGED <<session_file, loads, contextVars, personality_profiler,
                   dynamic_questioner, bot, engine_call,
                   analysis_call, args>>

AssessmentNext ==
    \/ RecordAssessmentAnswer
    \/ NextAssessmentStage
    \/ CalculateGiftScores

AssessmentSpec == Init /\ [][AssessmentNext]_vars

(* The scoring system called once on a finished corpus: the caller hands it
   the session's user_responses, or a dict that holds only the stages with
   answers (as test_scoring_system does) *)
AnsweredStages(user_responses) ==
    [ st \in { n \in DOMAIN user_responses : user_responses[n] # << >> } |->
        user_responses[st] ]

RecordScoringAnswer ==
    /\ scoring_call = NoScoring
    /\ total_responses(discovery_session) < MaxScoringResponses
    /\ \E text \in ScoringTexts :
         LET r == process_response(discovery_session, text)
         IN /\ discovery_session' = r.s
            /\ ret' = r.ret
    /\ op' = "process_response"
    /\ UNCHANGED <<session_file, loads, contextVars, botVars>>

NextScoringStage ==
    /\ scoring_call = NoScoring
    /\ discovery_session.current_stage < MaxScoringStage
    /\ discovery_session' = advance_to_next_stage(discovery_session)
    /\ op' = "_advance_to_next_stage"
    /\ ret' = "None"
    /\ UNCHANGED <<session_file, loads, contextVars, botVars>>

ScoreCorpus ==
    /\ scoring_call = NoScoring
    /\ \E corpus \in { discovery_session.user_responses,
                        AnsweredStages(discovery_session.user_responses) } :
         \E r \in { calculate_gift_scores(corpus) } :
            scoring_call' = [ user_responses |-> corpus,
                             gift_scores    |-> r.gift_scores,
                             repeated       |-> FALSE ]
    /\ op' = "calculate_gift_scores"
    /\ ret' = "None"
    /\ UNCHANGED <<sessionVars, contextVars, personality_profiler,
                   dynamic_questioner, bot, engine_call,
                   analysis_call, args>>

ScoringNext ==
    \/ RecordScoringAnswer
    \/ NextScoringStage
    \/ ScoreCorpus

ScoringSpec == Init /\ [][ScoringNext]_vars

(* The analyzer called on a list of responses: the caller gathers the
   responses, then calls one method on them *)
GatherResponse ==
    /\ analysis_call.method = "None"
    /\ Len(analysis_call.responses) < MaxAnalysisResponses
    /\ \E text \in AnalysisTexts :
         analysis_call' =
             [ analysis_call EXCEPT
                 !.responses = Append(@, [ response |-> text,
                                           question_number |-> Len(@) ]) ]
    /\ op' = "gather"
    /\ ret' = "None"
    /\ UNCHANGED <<sessionVars, contextVars, personality_profiler, dynamic_questioner,
                   bot, engine_call, scoring_call, args>>

ExtractThemes ==
    /\ analysis_call.method = "None"
    /\ \E texts \in { [ i \in 1..Len(analysis_call.responses) |->
                           analysis_call.responses[i].response ] } :
         analysis_call' =
             [ analysis_call EXCEPT
                 !.method = "extract_themes",
                 !.result = [ kind     |-> "themes",
                              skills   |-> extract_themes(skill_keywords, texts),
                              passions |-> extract_themes(passion_keywords, texts) ] ]
    /\ op' = "extract_themes"
    /\ ret' = "None"
    /\ UNCHANGED <<sessionVars, contextVars, personality_profiler, dynamic_questioner,
                   bot, engine_call, scoring_call, args>>

AnalyzeSkills ==
    /\ analysis_call.method = "None"
    /\ analysis_call' = [ analysis_call EXCEPT
                            !.method = "analyze_skills",
                            !.result = analyze_skills(analysis_call.responses) ]
    /\ op' = "analyze_skills"
    /\ ret' = "None"
    /\ UNCHANGED <<sessionVars, contextVars, personality_profiler, dynamic_questioner,
                   bot, engine_call, scoring_call, args>>

AnalyzePassions ==
    /\ analysis_call.method = "None"
    /\ analysis_call' = [ analysis_call EXCEPT
                            !.method = "analyze_passions",
                            !.result = analyze_passions(analysis_call.responses) ]
    /\ op' = "analyze_passions"
    /\ ret' = "None"
    /\ UNCHANGED <<sessionVars, contextVars, personality_profiler, dynamic_questioner,
                   bot, engine_call, scoring_call, args>>

AnalysisNext ==
    \/ GatherResponse
    \/ ExtractThemes
    \/ AnalyzeSkills
    \/ AnalyzePassions

AnalysisSpec == Init /\ [][AnalysisNext]_vars

(* The profiler on its own: answers arrive through update_profile
   (enhanced_discovery_bot.py:243, streamlit_app.py:252), and
   build_communication_profile is called once directly on a list of answers
   (personality_profiler.py:414, test_phase4.py:118), here a slice of the
   answers given so far. *)
MaxProfileSamples == 4

ProfileTexts ==
    { "I often help my friends plan things and I love it!",
      "We usually meet at the hall on the first day of week",
      "Why? I think it is clearly good" }

UpdateProfile ==
    /\ Len(personality_profiler.communication_samples) < MaxProfileSamples
    /\ \E new_response \in ProfileTexts :
         personality_profiler' = update_profile(personality_profiler, new_response)
    /\ op' = "update_profile"
    /\ ret' = "None"
    /\ UNCHANGED <<sessionVars, contextVars, dynamic_questioner, bot, engine_call,
                   scoring_call, analysis_call, args>>

BuildCommunicationProfile ==
    /\ args = << >>
    /\ \E first \in 1..(Len(personality_profiler.communication_samples) + 1) :
         \E last \in (first - 1)..Len(personality_profiler.communication_samples) :
           \E user_responses \in
                 { SubSeq(personality_profiler.communication_samples, first, last) } :
             \E profile \in { build_communication_profile(user_responses) } :
               /\ args' = [ user_responses |-> user_responses ]
               /\ personality_profiler' =
                      IF profile = NoProfile THEN personality_profiler
                      ELSE [ personality_profiler EXCEPT !.current_profile = profile ]
               /\ ret' = profile.primary_style
    /\ op' = "build_communication_profile"
    /\ UNCHANGED <<sessionVars, contextVars, dynamic_questioner, bot, engine_call,
                   scoring_call, analysis_call>>

ProfileNext ==
    \/ UpdateProfile
    \/ BuildCommunicationProfile

ProfileSpec == Init /\ [][ProfileNext]_vars

(* determine_communication_style on its own (test_phase4.py:169): the markers
   are quotients of counts, drawn here from values on either side of every
   threshold the four scores compare them with. *)
MarkerValues ==
    [ word_count_avg               : { Fraction(10, 1), Fraction(18, 1), Fraction(22, 1),
                                       Fraction(28, 1), Fraction(32, 1) },
      emotional_language_frequency : { Fraction(0, 1), Fraction(2, 100), Fraction(35, 1000),
                                       Fraction(5, 100), Fraction(1, 10) },
      question_asking_frequency    : { Fraction(0, 1), Fraction(22, 100), Fraction(28, 100),
                                       Fraction(1, 2) },
      concrete_vs_abstract_ratio   : { Fraction(0, 1), Fraction(45, 100), Fraction(55, 100),
                                       Fraction(65, 100), Fraction(1, 1) },
      uncertainty_indicators       : { Fraction(0, 1), Fraction(12, 100), Fraction(1, 2) },
      enthusiasm_markers           : { Fraction(0, 1), Fraction(1, 10) } ]

DetermineCommunicationStyle ==
    /\ args = << >>
    /\ \E markers \in MarkerValues :
         \E returned \in { determine_communication_style(markers) } :
           /\ args' = [ markers |-> markers, returned |-> returned ]
           /\ ret' = returned.style
    /\ op' = "determine_communication_style"
    /\ UNCHANGED <<sessionVars, contextVars, personality_profiler, dynamic_questioner,
                   bot, engine_call, scoring_call, analysis_call>>

StyleNext ==
    \/ DetermineCommunicationStyle

StyleSpec == Init /\ [][StyleNext]_vars

(* The context manager asked, between exchanges, whether a theme deserves a
   deep dive.  The behaviours are short enough for the timeline to keep every
   exchange (max_context_window is 10). *)
MaxThemeExchanges == 5

DeepDiveInputs ==
    { [ user_input   |-> "I teach and help",
        bot_response |-> "Great!",
        stage        |-> "skills_assessment" ],
      [ user_input   |-> "I help",
        bot_response |-> "Tell me more",
        stage        |-> "passion_exploration" ],
      [ user_input   |-> "Hm",
        bot_response |-> "Go on",
        stage        |-> "introduction" ] }

(* themes asked about: two the inputs mention, one no input mentions and one
   that is no key of theme_keywords *)
DeepDiveThemes == { "teaching", "helping", "justice", "music" }

AddThemeExchange ==
    /\ exchanges < MaxThemeExchanges
    /\ \E x \in DeepDiveInputs :
          context_manager' =
              add_exchange(context_manager, x.user_input, x.bot_response, x.stage)
    /\ exchanges' = exchanges + 1
    /\ op' = "add_exchange"
    /\ ret' = "None"
    /\ UNCHANGED <<sessionVars, context_file, botVars>>

ShouldSuggestDeepDive ==
    /\ \E theme \in DeepDiveThemes :
         /\ args' = [ theme |-> theme ]
         /\ ret' = IF should_suggest_deep_dive(context_manager, theme)
                   THEN "True" ELSE "False"
    /\ op' = "should_suggest_deep_dive"
    /\ UNCHANGED <<sessionVars, contextVars, personality_profiler, dynamic_questioner,
                   bot, engine_call, scoring_call, analysis_call>>

DeepDiveNext ==
    \/ AddThemeExchange
    \/ ShouldSuggestDeepDive

DeepDiveSpec == Init /\ [][DeepDiveNext]_vars

(* The context manager asked, between exchanges, for the context of a
   prompt (enhanced_discovery_bot.py:74, test_phase4.py:37). *)
MaxBuildExchanges == 4

BuildInputs ==
    { [ user_input   |-> "I love my calling: to teach, lead, help and create",
        bot_response |-> "Great!",
        stage        |-> "skills_assessment" ],
      [ user_input   |-> "Justice is a core value, important to me; I create",
        bot_response |-> "Tell me more",
        stage        |-> "values_clarification" ],
      [ user_input   |-> "Hm",
        bot_response |-> "Go on",
        stage        |-> "introduction" ] }

(* the argument left out, empty and given *)
CurrentInputs == { "None", "", "How can I use my gifts?" }

AddBuildExchange ==
    /\ exchanges < MaxBuildExchanges
    /\ \E x \in BuildInputs :
          context_manager' =
              add_exchange(context_manager, x.user_input, x.bot_response, x.stage)
    /\ exchanges' = exchanges + 1
    /\ op' = "add_exchange"
    /\ ret' = "None"
    /\ UNCHANGED <<sessionVars, context_file, botVars>>

BuildContextForLlm ==
    /\ \E current_user_input \in CurrentInputs :
         args' = [ current_user_input |-> current_user_input,
                   returned |-> build_context_for_llm(context_manager, current_user_input) ]
    /\ op' = "build_context_for_llm"
    /\ ret' = "context"
    /\ UNCHANGED <<sessionVars, contextVars, personality_profiler, dynamic_questioner,
                   bot, engine_call, scoring_call, analysis_call>>

BuildNext ==
    \/ AddBuildExchange
    \/ BuildContextForLlm

BuildSpec == Init /\ [][BuildNext]_vars

(* The questioning engine asked for a question after every answer, as a turn
   of the enhanced interview does (enhanced_discovery_bot.py:239, :132-136);
   args keeps the questions returned so far. *)
MaxFollowUpAnswers == 3

FollowUpTexts == { "I love it", "It was difficult", "It began well", "Hm" }

QuestionsAsked == IF args = << >> THEN << >> ELSE args.asked

RecordFollowUpAnswer ==
    /\ total_responses(discovery_session) < MaxFollowUpAnswers
    /\ Len(QuestionsAsked) = total_responses(discovery_session)
    /\ \E text \in FollowUpTexts :
         LET r == process_response(discovery_session, text)
         IN /\ discovery_session' = r.s
            /\ ret' = r.ret
    /\ op' = "process_response"
    /\ UNCHANGED <<session_file, loads, contextVars, botVars>>

AskNextQuestion ==
    /\ Len(QuestionsAsked) < total_responses(discovery_session)
    /\ \E stage_responses \in { discovery_session.user_responses[get_current_stage(discovery_session)] } :
       \E g \in { generate_next_question(dynamic_questioner,
                                         discovery_session.user_responses,
                                         get_current_stage(discovery_session),
                                         stage_responses[Len(stage_responses)].response) } :
          /\ dynamic_questioner' = g.dq
          /\ args' = [ asked |-> Append(QuestionsAsked, g.question) ]
    /\ op' = "generate_next_question"
    /\ ret' = "None"
    /\ UNCHANGED <<sessionVars, contextVars, personality_profiler, bot, engine_call,
                   scoring_call, analysis_call>>

FollowUpNext ==
    \/ RecordFollowUpAnswer
    \/ AskNextQuestion

FollowUpSpec == Init /\ [][FollowUpNext]_vars

ContextSaveNext ==
    \/ AddExchangeUpTo(MaxSaveExchanges)
    \/ SaveContext

ContextSaveSpec == Init /\ [][ContextSaveNext]_vars

-----------------------------------------------------------------------------
(* The generation collaborator.  What requests.post, raise_for_status,
   response.json() and the navigation of the payload come to:
     "text"             the payload carries candidates[0].content.parts[0].text
     "no_text"          the payload has no candidate, no content, no part or
                        no text in its first part
     "RequestException" post raises (connection error, timeout) or
                        raise_for_status raises HTTPError
     "KeyError"         the content of the first candidate has no "parts"
     "TypeError"        a node of the payload is of another type than the
                        navigation expects, as in
                        {"candidates": [{"content": null}]} or the body null
   text is the generated text, or the message of the exception.  The prompt
   (build_context_for_llm, get_style_guidance_for_llm,
   get_contextual_guidance, build_contextual_prompt) is built from the
   objects without changing them and does not restrict the reply. *)
ApiResponses ==
    { [ kind |-> "text",             text |-> "Thank you for sharing that." ],
      [ kind |-> "no_text",          text |-> "" ],
      [ kind |-> "RequestException", text |-> "Connection refused" ],
      [ kind |-> "KeyError",         text |-> "'parts'" ],
      [ kind |-> "TypeError",        text |-> "'NoneType' object is not subscriptable" ] }

(* call_gemini_with_intelligence: the text returned, or the exception that
   leaves the call *)
call_gemini_with_intelligence(resp) ==
    CASE resp.kind = "text" ->
            [ raised |-> "None", text |-> resp.text ]
      [] resp.kind = "no_text" ->
            [ raised |-> "None",
              text |-> "I'm having trouble generating a response. Could you share more about what you're experiencing?" ]
      [] resp.kind = "RequestException" ->
            [ raised |-> "None",
              text |-> "I'm experiencing a connection issue. Let's continue - could you tell me more?" ]
      [] resp.kind = "KeyError" ->
            [ raised |-> "None",
              text |-> "I'm having trouble processing that. Could you rephrase your response?" ]
      [] OTHER ->
            [ raised |-> resp.kind, text |-> "None" ]

(* DiscoveryBot.call_gemini *)
call_gemini(resp) ==
    CASE resp.kind = "text" ->
            [ raised |-> "None", text |-> resp.text ]
      [] resp.kind = "no_text" ->
            [ raised |-> "None", text |-> "Sorry, I couldn't generate a response." ]
      [] resp.kind = "RequestException" ->
            [ raised |-> "None", text |-> "Error calling API: " \o resp.text ]
      [] resp.kind = "KeyError" ->
            [ raised |-> "None", text |-> "Error parsing response: " \o resp.text ]
      [] OTHER ->
            [ raised |-> resp.kind, text |-> "None" ]

-----------------------------------------------------------------------------
(* The interview loops.  An iteration is a function of the program state,
   the line read and the collaborator's reply. *)

ProgramState ==
    [ discovery_session    |-> discovery_session,
      session_file         |-> session_file,
      context_manager      |-> context_manager,
      context_file         |-> context_file,
      exchanges            |-> exchanges,
      personality_profiler |-> personality_profiler,
      dynamic_questioner   |-> dynamic_questioner,
      bot                  |-> bot,
      op                   |-> op ]

(* s.replace('_', ' ').title(): a letter after a non-letter in upper case,
   every other letter in lower case *)
StageTitle(s) ==
    LET Char(i) == IF SubSeq(s, i, i) = "_" THEN " " ELSE SubSeq(s, i, i)
        RECURSIVE Build(_)
        Build(i) ==
            IF i > Len(s) THEN ""
            ELSE (IF i = 1 \/ ~IsLetter(Char(i - 1))
                  THEN UpperChar(Char(i)) ELSE LowerChar(Char(i)))
                 \o Build(i + 1)
    IN Build(1)

(* ', '.join(texts) *)
RECURSIVE JoinWithComma(_)
JoinWithComma(texts) ==
    IF texts = << >> THEN ""
    ELSE IF Len(texts) = 1 THEN texts[1]
    ELSE texts[1] \o ", " \o JoinWithComma(Tail(texts))

(* [name for name, theme in themes.items() if theme.strength >= least] *)
strong_themes(cm, least) ==
    LET strong == SelectSeq(cm.themes, LAMBDA th : th.strength >= least)
    IN [ i \in 1..Len(strong) |-> strong[i].theme_name ]

(* _should_continue_dynamic_flow *)
should_continue_dynamic_flow(dq) ==
    LET strong_patterns == Len(SelectSeq(dq.response_patterns, LAMBDA pt : pt.confidence >= 8))
        uncovered_areas == { a \in DOMAIN dq.coverage_status : ~dq.coverage_status[a] }
    IN strong_patterns > 0 \/ Cardinality(uncovered_areas) > 2

(* get_next_intelligent_question: the questioner after the call and the
   text returned *)
get_next_intelligent_question(dq, ds, cm, conversation_stage, user_input) ==
    LET Text(g) ==
          [ dq |-> g.dq,
            next_question |->
                IF strong_themes(cm, 25) # << >> /\ g.question.question_type = "deep_dive"
                THEN "\n" \o g.question.question_text
                ELSE IF g.question.question_type = "follow_up"
                THEN "\n" \o g.question.question_text
                ELSE IF should_continue_dynamic_flow(g.dq)
                THEN "\n" \o g.question.question_text
                ELSE "" ]
    IN Once(Text, generate_next_question(dq, ds.user_responses, conversation_stage,
                                         user_input))

(* _should_advance_stage, were the stage advanced after every answer *)
should_advance_stage_every_answer(ds, dq) == TRUE

(* _should_advance_stage *)
should_advance_stage(ds, dq) ==
    LET current_stage == get_current_stage(ds)
        stage_responses == IF current_stage \in DOMAIN ds.user_responses
                           THEN Len(ds.user_responses[current_stage]) ELSE 0
    IN ~should_continue_current_stage(dq, current_stage, stage_responses)

-----------------------------------------------------------------------------
(* start_enhanced_discovery_journey: enhanced_discovery_bot.py:163-234 *)

(* save_session: the file it writes *)
save_session(ds) == [ kind |-> "json", data |-> session_data(ds) ]

(* save_context: the file it writes *)
save_context(cm) == [ kind |-> "json", data |-> context_data(cm) ]

(* _handle_enhanced_session_end *)
handle_enhanced_session_end(P) ==
    [ P EXCEPT !.session_file = save_session(P.discovery_session),
               !.context_file = save_context(P.context_manager),
               !.bot.printed  = << "\nThank you for this meaningful discovery journey!" >> ]

(* _save_enhanced_session *)
save_enhanced_session(P) ==
    [ P EXCEPT !.session_file = save_session(P.discovery_session),
               !.context_file = save_context(P.context_manager),
               !.bot.printed  = << "\nEnhanced session saved:" >> ]

(* _process_user_input_with_intelligence *)
process_user_input_with_intelligence(P, user_input) ==
    Once(LAMBDA ds1 :
             [ P EXCEPT !.discovery_session      = ds1,
                        !.personality_profiler   = update_profile(@, user_input),
                        !.bot.conversation_stage = get_current_stage(ds1) ],
         process_response(P.discovery_session, user_input).s)

(* _advance_conversation_stage *)
(* _advance_conversation_stage that leaves conversation_stage as it was *)
advance_conversation_stage_keeping_stage(P) ==
    [ P EXCEPT !.discovery_session = advance_to_next_stage(P.discovery_session) ]

advance_conversation_stage(P) ==
    LET ds1    == advance_to_next_stage(P.discovery_session)
        stage  == get_current_stage(ds1)
        themes == strong_themes(P.context_manager, 20)
        first_two == SubSeq(themes, 1, IF Len(themes) < 2 THEN Len(themes) ELSE 2)
    IN [ P EXCEPT
           !.discovery_session      = ds1,
           !.bot.conversation_stage = stage,
           !.bot.printed =
               @ \o ( IF stage = "completed" THEN << >>
                      ELSE << "\n--- Moving to " \o StageTitle(stage) \o " Stage ---" >>
                           \o ( IF themes = << >> THEN << >>
                                ELSE << "I'm noticing strong themes around "
                                        \o JoinWithComma(first_two)
                                        \o " - let's explore this further." >> ) ) ]

(* lines 215-234 of the loop: the turn for an answer *)
enhanced_answer(P, user_input, resp) ==
    LET call == call_gemini_with_intelligence(resp)
        Advance(P3) ==
            [ (IF should_advance_stage(P3.discovery_session, P3.dynamic_questioner)
               THEN advance_conversation_stage(P3) ELSE P3)
              EXCEPT !.bot.response = resp, !.op = "answer" ]
        Question(P2) ==
            Once(LAMBDA g :
                     Once(Advance,
                          [ P2 EXCEPT
                              !.dynamic_questioner = g.dq,
                              !.bot.printed =
                                  << "\nGuide: ", call.text >>
                                  \o ( IF g.next_question # "" THEN << g.next_question >>
                                       ELSE << >> ) ]),
                 get_next_intelligent_question(P2.dynamic_questioner, P2.discovery_session,
                                               P2.context_manager,
                                               P2.bot.conversation_stage, user_input))
        Respond(P1) ==
            IF call.raised # "None"
            THEN [ P1 EXCEPT !.bot.response = resp, !.bot.printed = << "\nGuide: " >>,
                             !.bot.pc = "raised", !.op = "answer" ]
            ELSE Once(Question,
                      [ P1 EXCEPT
                          !.context_manager =
                              add_exchange(@, user_input, call.text,
                                           P1.bot.conversation_stage),
                          !.exchanges = @ + 1,
                          !.bot.total_exchanges = @ + 1 ])
    IN Once(Respond, process_user_input_with_intelligence(P, user_input))

(* one iteration of the loop, without the test for an empty input *)
enhanced_iteration_without_empty_check(P, line, resp) ==
    LET Run(user_input, command, Q) ==
      IF command \in {"quit", "exit", "bye"}
       THEN [ handle_enhanced_session_end(Q) EXCEPT !.bot.pc = "ended", !.op = "quit" ]
       ELSE IF command = "save"
       THEN [ save_enhanced_session(Q) EXCEPT !.op = "save" ]
       ELSE IF command = "progress"
       THEN [ Q EXCEPT !.bot.printed = << "\n--- ENHANCED PROGRESS ---" >>, !.op = "progress" ]
       ELSE IF command = "insights"
       THEN [ Q EXCEPT !.bot.printed = << "\n--- CURRENT INSIGHTS ---" >>, !.op = "insights" ]
       ELSE IF command = "style"
       THEN [ Q EXCEPT !.bot.printed = << "\n--- PERSONALITY PROFILE ---" >>, !.op = "style" ]
       ELSE IF command = "help"
       THEN [ Q EXCEPT !.bot.printed = << "\n--- ENHANCED HELP ---" >>, !.op = "help" ]
       ELSE enhanced_answer(Q, user_input, resp)
    IN Once(LAMBDA user_input :
                Once(LAMBDA command :
                         Once(LAMBDA Q : Run(user_input, command, Q),
                              [ P EXCEPT !.bot.line = line, !.bot.user_input = user_input,
                                         !.bot.printed = << >> ]),
                     lower(user_input)),
            strip(line))

(* one iteration of the loop at lines 184-234 *)
enhanced_iteration(P, line, resp) ==
    LET Run(user_input, command, Q) ==
      IF command \in {"quit", "exit", "bye"}
       THEN [ handle_enhanced_session_end(Q) EXCEPT !.bot.pc = "ended", !.op = "quit" ]
       ELSE IF command = "save"
       THEN [ save_enhanced_session(Q) EXCEPT !.op = "save" ]
       ELSE IF command = "progress"
       THEN [ Q EXCEPT !.bot.printed = << "\n--- ENHANCED PROGRESS ---" >>, !.op = "progress" ]
       ELSE IF command = "insights"
       THEN [ Q EXCEPT !.bot.printed = << "\n--- CURRENT INSIGHTS ---" >>, !.op = "insights" ]
       ELSE IF command = "style"
       THEN [ Q EXCEPT !.bot.printed = << "\n--- PERSONALITY PROFILE ---" >>, !.op = "style" ]
       ELSE IF command = "help"
       THEN [ Q EXCEPT !.bot.printed = << "\n--- ENHANCED HELP ---" >>, !.op = "help" ]
       ELSE IF user_input = ""
       THEN [ Q EXCEPT !.op = "empty" ]
       ELSE enhanced_answer(Q, user_input, resp)
    IN Once(LAMBDA user_input :
                Once(LAMBDA command :
                         Once(LAMBDA Q : Run(user_input, command, Q),
                              [ P EXCEPT !.bot.line = line, !.bot.user_input = user_input,
                                         !.bot.printed = << >> ]),
                     lower(user_input)),
            strip(line))

-----------------------------------------------------------------------------
(* start_discovery_journey: discovery_engine.py:280-358 *)

(* lines 334-358 of the loop: the turn for an answer *)
discovery_answer(P, user_input, resp) ==
    LET call == call_gemini(resp)
        Next(processed, q) ==
            IF q.ret # "None"
            THEN [ P EXCEPT !.discovery_session = q.s,
                            !.bot.response = resp,
                            !.bot.printed = << "\nGuide: ", call.text, "\nNext: " \o q.ret >>,
                            !.op = "answer" ]
            ELSE IF get_current_stage(q.s) = "completed"
            THEN [ P EXCEPT !.discovery_session = q.s,
                            !.session_file = save_session(q.s),
                            !.bot.response = resp,
                            !.bot.printed = << "\nGuide: ", call.text,
                                               "\nCongratulations! You've completed your spiritual discovery journey!" >>,
                            !.bot.pc = "ended", !.op = "answer" ]
            ELSE [ P EXCEPT !.discovery_session = q.s,
                            !.bot.response = resp,
                            !.bot.printed = << "\nGuide: ", call.text >>,
                            !.op = "answer" ]
        Respond(processed) ==
            IF processed.ret = "False"
            THEN [ P EXCEPT !.bot.printed = << "\nGuide: Our discovery journey is complete! Thank you for sharing so openly." >>,
                            !.bot.pc = "ended", !.op = "answer" ]
            ELSE IF call.raised # "None"
            THEN [ P EXCEPT !.discovery_session = processed.s,
                            !.bot.response = resp,
                            !.bot.printed = << "\nGuide: " >>,
                            !.bot.pc = "raised", !.op = "answer" ]
            ELSE Once(LAMBDA q : Next(processed, q), get_next_question(processed.s))
    IN Once(Respond, process_response(P.discovery_session, user_input))

(* one iteration of the loop at lines 296-358 *)
discovery_iteration(P, line, resp) ==
    LET Run(user_input, command, Q) ==
      IF command \in {"quit", "exit", "bye"}
       THEN [ Q EXCEPT !.session_file = save_session(Q.discovery_session),
                       !.bot.printed = << "\nGuide: Your discovery journey has been saved to filename" >>,
                       !.bot.pc = "ended", !.op = "quit" ]
       ELSE IF command = "save"
       THEN [ Q EXCEPT !.session_file = save_session(Q.discovery_session),
                       !.bot.printed = << "\nSession saved to filename" >>,
                       !.op = "save" ]
       ELSE IF command = "progress"
       THEN [ Q EXCEPT !.bot.printed = << "\n--- Discovery Progress ---" >>, !.op = "progress" ]
       ELSE IF command = "skip"
       THEN LET q == get_next_question(advance_to_next_stage(Q.discovery_session))
            IN [ Q EXCEPT !.discovery_session = q.s,
                          !.bot.printed =
                              << "\nSkipping to next stage...",
                                 IF q.ret # "None" THEN "\nGuide: " \o q.ret
                                 ELSE "\nGuide: We've completed all discovery stages!" >>,
                          !.op = "skip" ]
       ELSE IF user_input = ""
       THEN [ Q EXCEPT !.op = "empty" ]
       ELSE discovery_answer(Q, user_input, resp)
    IN Once(LAMBDA user_input :
                Once(LAMBDA command :
                         Once(LAMBDA Q : Run(user_input, command, Q),
                              [ P EXCEPT !.bot.line = line, !.bot.user_input = user_input,
                                         !.bot.printed = << >> ]),
                     lower(user_input)),
            strip(line))

-----------------------------------------------------------------------------
(* SpiritualGiftsDiscoveryBot.start_discovery_journey:
   spiritual_gifts_bot.py:77-159.  The assessment and the analysis are kept
   as the heading they print; the assessment file is not kept. *)

(* SpiritualGiftsDiscoveryBot.call_gemini *)
gifts_call_gemini(resp) ==
    CASE resp.kind = "text" ->
            [ raised |-> "None", text |-> resp.text ]
      [] resp.kind = "no_text" ->
            [ raised |-> "None",
              text |-> "I'm having trouble generating a response right now. Could you share more about what you're experiencing?" ]
      [] resp.kind = "RequestException" ->
            [ raised |-> "None",
              text |-> "I'm experiencing a connection issue: " \o resp.text \o "..." ]
      [] resp.kind = "KeyError" ->
            [ raised |-> "None",
              text |-> "I'm having trouble processing that. Could you rephrase your response?" ]
      [] OTHER ->
            [ raised |-> resp.kind, text |-> "None" ]

(* _provide_stage_insights: the lines it prints *)
provide_stage_insights(ds, completed_stage) ==
    LET responses == ds.user_responses[completed_stage]
        stage_name == CASE completed_stage = "skills_assessment" -> "Skills"
                        [] completed_stage = "passion_exploration" -> "Passions"
                        [] completed_stage = "values_clarification" -> "Values"
                        [] OTHER -> completed_stage
        Top(analysis, lead) ==
            IF analysis.kind = "analysis" /\ analysis.top # << >>
            THEN << lead \o JoinWithComma(analysis.top) >> ELSE << >>
    IN IF responses = << >> THEN << >>
       ELSE << "\n" \o stage_name \o " Stage Complete - Quick Insight:" >>
            \o ( CASE completed_stage = "skills_assessment" ->
                        Once(LAMBDA an : Top(an, "Your strongest skills appear to center around: "),
                             analyze_skills(responses))
                    [] completed_stage = "passion_exploration" ->
                        Once(LAMBDA an : Top(an, "Your core passions seem to involve: "),
                             analyze_passions(responses))
                    [] completed_stage = "values_clarification" ->
                        << "Your values are becoming clearer - this will help us see how your gifts might be expressed." >>
                    [] OTHER -> << >> )

(* _generate_final_assessment *)
generate_final_assessment(P) ==
    [ P EXCEPT !.session_file = save_session(P.discovery_session),
               !.bot.printed  = @ \o << "SPIRITUAL GIFTS ASSESSMENT RESULTS" >>,
               !.bot.pc       = "ended" ]

(* lines 130-159 of the loop: the turn for an answer *)
gifts_answer(P, user_input, resp) ==
    LET call == gifts_call_gemini(resp)
        Next(P1, q) ==
            IF q.ret # "None"
            THEN [ P1 EXCEPT !.discovery_session = q.s,
                             !.bot.printed = @ \o << "\nNext: " \o q.ret >> ]
            ELSE IF get_current_stage(q.s) = "completed"
            THEN generate_final_assessment(
                     [ P1 EXCEPT !.discovery_session = q.s,
                                 !.bot.printed = @ \o << "\nDiscovery journey complete! Generating your spiritual gifts assessment..." >> ])
            ELSE [ P1 EXCEPT !.discovery_session = q.s ]
        Insights(ds, current_stage) ==
            IF /\ current_stage \in { "skills_assessment", "passion_exploration",
                                      "values_clarification" }
               /\ ds.stage_progress[current_stage].completed
            THEN provide_stage_insights(ds, current_stage)
            ELSE << >>
        Respond(processed) ==
            IF processed.ret = "False"
            THEN generate_final_assessment(
                     [ P EXCEPT !.bot.printed = << "\nGuide: We've completed all discovery stages! Let me generate your spiritual gifts assessment." >>,
                                !.op = "answer" ])
            ELSE IF call.raised # "None"
            THEN [ P EXCEPT !.discovery_session = processed.s,
                            !.bot.response = resp,
                            !.bot.printed = << "\nGuide: " >>,
                            !.bot.pc = "raised", !.op = "answer" ]
            ELSE Once(LAMBDA P1 : Once(LAMBDA q : Next(P1, q),
                                       get_next_question(P1.discovery_session)),
                      [ P EXCEPT !.discovery_session = processed.s,
                                 !.bot.response = resp,
                                 !.bot.printed =
                                     << "\nGuide: ", call.text >>
                                     \o Insights(processed.s, get_current_stage(processed.s)),
                                 !.op = "answer" ])
    IN Once(Respond, process_response(P.discovery_session, user_input))

(* one iteration of the loop at lines 98-159; offer is the reply to the
   question _handle_session_end asks *)
gifts_iteration(P, line, resp, offer) ==
    LET Run(user_input, command, Q) ==
      IF command \in {"quit", "exit", "bye"}
       THEN [ Q EXCEPT !.session_file = save_session(Q.discovery_session),
                       !.bot.printed =
                           << "\nGuide: Your discovery journey has been saved to filename" >>
                           \o ( IF total_responses(Q.discovery_session) >= 3
                                   /\ Len(offer) > 0 /\ lower(SubSeq(offer, 1, 1)) = "y"
                                THEN << "\n--- CURRENT INSIGHTS ---" >> ELSE << >> ),
                       !.bot.pc = "ended", !.op = "quit" ]
       ELSE IF command = "save"
       THEN [ Q EXCEPT !.session_file = save_session(Q.discovery_session),
                       !.bot.printed = << "\nSession saved to filename" >>,
                       !.op = "save" ]
       ELSE IF command = "progress"
       THEN [ Q EXCEPT !.bot.printed = << "\n--- DISCOVERY PROGRESS ---" >>, !.op = "progress" ]
       ELSE IF command = "skip"
       THEN LET q == get_next_question(advance_to_next_stage(Q.discovery_session))
            IN [ Q EXCEPT !.discovery_session = q.s,
                          !.bot.printed =
                              << "\nSkipping " \o get_current_stage(Q.discovery_session)
                                 \o " stage...",
                                 IF q.ret # "None" THEN "\nGuide: " \o q.ret
                                 ELSE "\nGuide: We've completed all discovery stages!" >>,
                          !.op = "skip" ]
       ELSE IF command = "analyze"
       THEN [ Q EXCEPT !.bot.printed = << "\n--- CURRENT INSIGHTS ---" >>, !.op = "analyze" ]
       ELSE IF command = "help"
       THEN [ Q EXCEPT !.bot.printed = << "\n--- HELP ---" >>, !.op = "help" ]
       ELSE IF user_input = ""
       THEN [ Q EXCEPT !.op = "empty" ]
       ELSE gifts_answer(Q, user_input, resp)
    IN Once(LAMBDA user_input :
                Once(LAMBDA command :
                         Once(LAMBDA Q : Run(user_input, command, Q),
                              [ P EXCEPT !.bot.line = line, !.bot.user_input = user_input,
                                         !.bot.printed = << >> ]),
                     lower(user_input)),
            strip(line))

-----------------------------------------------------------------------------
(* SmartConversationMemory and SmartMemoryBot.chat: smart_memory_bot.py.
   A message is its role and content; timestamps are not kept. *)

recent_message_limit == 6
summarize_threshold == 10

NewSmartConversationMemory == [ messages |-> << >>, conversation_summary |-> "" ]

RECURSIVE JoinWith(_, _)
JoinWith(texts, sep) ==
    IF texts = << >> THEN ""
    ELSE IF Len(texts) = 1 THEN texts[1]
    ELSE texts[1] \o sep \o JoinWith(Tail(texts), sep)

(* seq[:-n] and seq[-n:] *)
AllButLast(seq, n) == IF Len(seq) > n THEN SubSeq(seq, 1, Len(seq) - n) ELSE << >>

(* _summarize_old_messages: the memory it leaves and the lines it prints *)
summarize_old_messages(m) ==
    LET messages_to_summarize == AllButLast(m.messages, recent_message_limit)
        recent_messages == LastOf(m.messages, recent_message_limit)
        OfUser == SelectSeq(messages_to_summarize, LAMBDA msg : msg.role = "user")
        Contents(msgs) == [ i \in 1..Len(msgs) |-> msgs[i].content ]
        user_details ==
            Contents(SelectSeq(OfUser, LAMBDA msg :
                \E w \in { "name", "i'm", "my name" } : Contains(w, lower(msg.content))))
        key_themes ==
            Contents(SelectSeq(OfUser, LAMBDA msg :
                \E w \in { "love", "enjoy", "passionate", "interested", "drawn to" } :
                    Contains(w, lower(msg.content))))
        summary_parts ==
            ( IF m.conversation_summary # ""
              THEN << "Previous context: " \o m.conversation_summary >> ELSE << >> )
            \o ( IF user_details # << >>
                 THEN << "User shared: " \o JoinWith(FirstOf(user_details, 3), "; ") >>
                 ELSE << >> )
            \o ( IF key_themes # << >>
                 THEN << "Key interests: " \o JoinWith(FirstOf(key_themes, 3), "; ") >>
                 ELSE << >> )
    IN IF messages_to_summarize = << >>
       THEN [ m |-> m, printed |-> << >> ]
       ELSE [ m |-> [ messages |-> recent_messages,
                      conversation_summary |-> JoinWith(summary_parts, " | ") ],
              printed |-> << "\n[System: Summarized "
                             \o ToString(Len(messages_to_summarize))
                             \o " older messages to preserve context]\n" >> ]

(* add_message *)
add_message(m, role, content) ==
    LET added == [ m EXCEPT !.messages = Append(@, [ role |-> role, content |-> content ]) ]
    IN IF Len(added.messages) >= summarize_threshold
       THEN summarize_old_messages(added)
       ELSE [ m |-> added, printed |-> << >> ]

(* SmartMemoryBot.call_gemini *)
smart_call_gemini(resp) ==
    CASE resp.kind = "text" -> [ raised |-> "None", text |-> resp.text ]
      [] resp.kind = "no_text" ->
            [ raised |-> "None", text |-> "Sorry, I couldn't generate a response." ]
      [] resp.kind = "RequestException" ->
            [ raised |-> "None", text |-> "Error calling API: " \o resp.text ]
      [] resp.kind = "KeyError" ->
            [ raised |-> "None", text |-> "Error parsing response: " \o resp.text ]
      [] OTHER -> [ raised |-> resp.kind, text |-> "None" ]

(* get_summary_with_api, the api_call_function being _api_call_for_summary
   answered by summary_resp *)
get_summary_with_api(m, summary_resp) ==
    LET messages_to_summarize == AllButLast(m.messages, recent_message_limit)
        recent_messages == LastOf(m.messages, recent_message_limit)
        call == smart_call_gemini(summary_resp)
        fallback == summarize_old_messages(m)
    IN IF Len(m.messages) < summarize_threshold
       THEN [ m |-> m, printed |-> << >> ]
       ELSE IF call.raised = "None"
       THEN [ m |-> [ messages |-> recent_messages, conversation_summary |-> call.text ],
              printed |-> << "\n[System: Intelligently summarized conversation - "
                             \o ToString(Len(messages_to_summarize))
                             \o " messages condensed]\n" >> ]
       ELSE [ m |-> fallback.m,
              printed |-> << "\n[System: Summary failed, using basic approach: "
                             \o summary_resp.text \o "]\n" >> \o fallback.printed ]

(* SmartConversationMemory.save_session: what the file holds *)
smart_session_data(m) ==
    [ conversation_summary |-> m.conversation_summary,
      recent_message_count |-> Len(m.messages),
      messages             |-> m.messages ]

(* one iteration of the loop of chat (lines 240-282); b is the bot with its
   memory; the result is the bot, the session file and the branch taken *)
chat_iteration(b, file, line, resp, summary_resp) ==
    LET user_input == strip(line)
        command == lower(user_input)
        B == [ b EXCEPT !.line = line, !.user_input = user_input, !.printed = << >> ]
        Answer ==
            LET first == add_message(B.memory, "user", user_input)
                second == IF Len(first.m.messages) >= summarize_threshold
                          THEN get_summary_with_api(first.m, summary_resp)
                          ELSE [ m |-> first.m, printed |-> << >> ]
                call == smart_call_gemini(resp)
                third == add_message(second.m, "bot", call.text)
            IN IF call.raised # "None"
               THEN [ bot |-> [ B EXCEPT !.memory = second.m,
                                         !.added = @ + 1,
                                         !.response = resp,
                                         !.printed = first.printed \o second.printed
                                                     \o << "\nBot: " >>,
                                         !.pc = "raised" ],
                      file |-> file, op |-> "answer" ]
               ELSE [ bot |-> [ B EXCEPT !.memory = third.m,
                                         !.added = @ + 2,
                                         !.response = resp,
                                         !.printed = first.printed \o second.printed
                                                     \o << "\nBot: ", call.text >>
                                                     \o third.printed ],
                      file |-> file, op |-> "answer" ]
    IN IF command \in { "quit", "exit", "bye" }
       THEN [ bot |-> [ B EXCEPT !.pc = "ended",
                                 !.printed = << "\nBot: Our journey together has been meaningful! Session saved to filename" >> ],
              file |-> [ kind |-> "json", data |-> smart_session_data(B.memory) ],
              op |-> "quit" ]
       ELSE IF command = "save"
       THEN [ bot |-> [ B EXCEPT !.printed = << "\nSession saved to filename" >> ],
              file |-> [ kind |-> "json", data |-> smart_session_data(B.memory) ],
              op |-> "save" ]
       ELSE IF command = "summary"
       THEN [ bot |-> [ B EXCEPT !.printed =
                            IF B.memory.conversation_summary # ""
                            THEN << "\n--- Conversation Summary ---",
                                    B.memory.conversation_summary, "--- End Summary ---" >>
                            ELSE << "\nNo conversation summary available yet." >> ],
              file |-> file, op |-> "summary" ]
       ELSE IF command = "history"
       THEN [ bot |-> [ B EXCEPT !.printed = << "\n--- Recent Conversation ("
                                               \o ToString(Len(B.memory.messages))
                                               \o " messages) ---" >> ],
              file |-> file, op |-> "history" ]
       ELSE IF user_input = ""
       THEN [ bot |-> B, file |-> file, op |-> "empty" ]
       ELSE Answer

-----------------------------------------------------------------------------
(* The two programs run *)

LoopInit ==
    /\ discovery_session = NewDiscoverySession("s0")
    /\ session_file = [kind |-> "absent"]
    /\ loads = 0
    /\ context_manager = NewContextManager
    /\ context_file = [kind |-> "absent"]
    /\ exchanges = 0
    /\ personality_profiler = NewPersonalityProfiler
    /\ dynamic_questioner = NewDynamicQuestioningEngine
    /\ \E program \in Programs : bot = NewBot(program)
    /\ engine_call = NoCall
    /\ scoring_call = NoScoring
    /\ analysis_call = NoAnalysis
    /\ args = << >>
    /\ op = "init"
    /\ ret = "None"

(* the state after an iteration *)
Becomes(Q) ==
    /\ discovery_session' = Q.discovery_session
    /\ session_file' = Q.session_file
    /\ context_manager' = Q.context_manager
    /\ context_file' = Q.context_file
    /\ exchanges' = Q.exchanges
    /\ personality_profiler' = Q.personality_profiler
    /\ dynamic_questioner' = Q.dynamic_questioner
    /\ bot' = Q.bot
    /\ op' = Q.op
    /\ ret' = "None"
    /\ UNCHANGED <<loads, engine_call, scoring_call, analysis_call, args>>

(* the first question, asked before the loop is entered
   (discovery_engine.py:292-294, enhanced_discovery_bot.py:180-182) *)
Start ==
    /\ bot.pc = "start"
    /\ LET first_question == get_next_question(discovery_session)
       IN /\ discovery_session' = first_question.s
          /\ bot' = [ bot EXCEPT
                        !.pc = "loop",
                        !.printed = IF first_question.ret # "None"
                                    THEN << "\nGuide: " \o first_question.ret >>
                                    ELSE << >> ]
    /\ op' = "start"
    /\ ret' = "None"
    /\ UNCHANGED <<session_file, loads, contextVars, personality_profiler,
                   dynamic_questioner, engine_call, scoring_call, analysis_call, args>>

(* the replies an iteration may meet: the collaborator is called in the
   turn for an answer only *)
RepliesFor(Q0) == IF Q0.op = "answer" THEN ApiResponses ELSE { NoResponse }

EnhancedIterationUpTo(max) ==
    /\ bot.program = "EnhancedSpiritualDiscoveryBot"
    /\ bot.pc = "loop"
    /\ \E line \in EnhancedLines, P \in { ProgramState } :
         \E Q0 \in { enhanced_iteration(P, line, NoResponse) } :
            /\ total_responses(Q0.discovery_session) <= max
            /\ \E resp \in RepliesFor(Q0) :
                 \E Q \in { enhanced_iteration(P, line, resp) } : Becomes(Q)

DiscoveryIterationUpTo(max) ==
    /\ bot.program = "DiscoveryBot"
    /\ bot.pc = "loop"
    /\ \E line \in DiscoveryLines, P \in { ProgramState } :
         \E Q0 \in { discovery_iteration(P, line, NoResponse) } :
            /\ total_responses(Q0.discovery_session) <= max
            /\ \E resp \in RepliesFor(Q0) :
                 \E Q \in { discovery_iteration(P, line, resp) } : Becomes(Q)

LoopNext ==
    \/ Start
    \/ EnhancedIterationUpTo(MaxTurns)
    \/ DiscoveryIterationUpTo(MaxLoopResponses)

LoopSpec == LoopInit /\ [][LoopNext]_vars

(* The enhanced interview run to its end: every line typed is an answer or an
   empty line, and the collaborator replies with a text or with a body that
   makes call_gemini_with_intelligence raise.  At most MaxPatternAnswers of
   the answers carry keywords of a pattern; the others carry none.  The loop
   does not end when the session is completed: at most MaxTurnsAfterCompleted
   further answers are followed. *)
MaxTurnsAfterCompleted == 1

MaxPatternAnswers == 1

PlainAnswer == "Hm"

InterviewLines == { "", PlainAnswer, "I teach, explain, mentor and guide" }

InterviewReplies ==
    { [ kind |-> "text",      text |-> "Go on" ],
      [ kind |-> "TypeError", text |-> "'NoneType' object is not subscriptable" ] }

(* the number of answers given other than PlainAnswer; update_profile keeps
   every answer *)
PatternAnswers(pp) ==
    Len(SelectSeq(pp.communication_samples, LAMBDA r : r # PlainAnswer))

InterviewTurn ==
    /\ bot.pc = "loop"
    /\ bot.total_exchanges - total_responses(discovery_session) < MaxTurnsAfterCompleted
    /\ \E line \in InterviewLines, P \in { ProgramState } :
         \E resp \in (IF line = "" THEN { NoResponse } ELSE InterviewReplies) :
            \E Q \in { enhanced_iteration(P, line, resp) } :
               /\ PatternAnswers(Q.personality_profiler) <= MaxPatternAnswers
               /\ Becomes(Q)

InterviewNext ==
    \/ Start
    \/ InterviewTurn

InterviewSpec == Init /\ [][InterviewNext]_vars

(* SpiritualGiftsDiscoveryBot run from its first question *)
MaxJourneyAnswers == 4

JourneyLines == { "", "I teach and lead", "I love to help", "skip", "Analyze", "quit" }

JourneyReplies ==
    { [ kind |-> "text",      text |-> "Go on" ],
      [ kind |-> "TypeError", text |-> "'NoneType' object is not subscriptable" ] }

OfferReplies == { "Yes", "n" }

JourneyInit ==
    /\ discovery_session = NewDiscoverySession("s0")
    /\ session_file = [kind |-> "absent"]
    /\ loads = 0
    /\ context_manager = NewContextManager
    /\ context_file = [kind |-> "absent"]
    /\ exchanges = 0
    /\ personality_profiler = NewPersonalityProfiler
    /\ dynamic_questioner = NewDynamicQuestioningEngine
    /\ bot = NewBot("SpiritualGiftsDiscoveryBot")
    /\ engine_call = NoCall
    /\ scoring_call = NoScoring
    /\ analysis_call = NoAnalysis
    /\ args = << >>
    /\ op = "init"
    /\ ret = "None"

JourneyIteration ==
    /\ bot.pc = "loop"
    /\ \E line \in JourneyLines, P \in { ProgramState } :
         \E Q0 \in { gifts_iteration(P, line, NoResponse, "n") } :
            /\ total_responses(Q0.discovery_session) <= MaxJourneyAnswers
            /\ \E resp \in (IF Q0.op = "answer" THEN JourneyReplies ELSE { NoResponse }),
                  offer \in (IF Q0.op = "quit" THEN OfferReplies ELSE { "n" }) :
                 \E Q \in { gifts_iteration(P, line, resp, offer) } : Becomes(Q)

JourneyNext ==
    \/ Start
    \/ JourneyIteration

JourneySpec == JourneyInit /\ [][JourneyNext]_vars

(* DiscoveryBot run from its first question to the end of its loop;
   args.skipped tells whether a skip command has been read *)
RunLines == { "", "Hm", "skip", "quit" }

RunReplies ==
    { [ kind |-> "text",      text |-> "Go on" ],
      [ kind |-> "TypeError", text |-> "'NoneType' object is not subscriptable" ] }

RunInit ==
    /\ discovery_session = NewDiscoverySession("s0")
    /\ session_file = [kind |-> "absent"]
    /\ loads = 0
    /\ context_manager = NewContextManager
    /\ context_file = [kind |-> "absent"]
    /\ exchanges = 0
    /\ personality_profiler = NewPersonalityProfiler
    /\ dynamic_questioner = NewDynamicQuestioningEngine
    /\ bot = NewBot("DiscoveryBot")
    /\ engine_call = NoCall
    /\ scoring_call = NoScoring
    /\ analysis_call = NoAnalysis
    /\ args = [ skipped |-> FALSE ]
    /\ op = "init"
    /\ ret = "None"

RunIteration ==
    /\ bot.pc = "loop"
    /\ \E line \in RunLines, P \in { ProgramState } :
         \E Q0 \in { discovery_iteration(P, line, NoResponse) } :
            \E resp \in (IF Q0.op = "answer" THEN RunReplies ELSE { NoResponse }) :
               \E Q \in { discovery_iteration(P, line, resp) } :
                  /\ discovery_session' = Q.discovery_session
                  /\ session_file' = Q.session_file
                  /\ bot' = Q.bot
                  /\ op' = Q.op
                  /\ args' = [ skipped |-> args.skipped \/ Q.op = "skip" ]
    /\ ret' = "None"
    /\ UNCHANGED <<loads, contextVars, personality_profiler, dynamic_questioner,
                   engine_call, scoring_call, analysis_call>>

RunNext ==
    \/ Start
    \/ RunIteration

RunSpec == RunInit /\ [][RunNext]_vars

(* SmartMemoryBot.chat; bot.added counts the add_message calls made *)
MaxAddedMessages == 10

ChatLines == { "", "Hi, I'm Alex", "I love to help", "Hm", "summary", "save", "quit" }

ChatReplies ==
    { [ kind |-> "text",      text |-> "Go on" ],
      [ kind |-> "TypeError", text |-> "'NoneType' object is not subscriptable" ] }

SummaryReplies ==
    { [ kind |-> "text",      text |-> "Alex loves to help" ],
      [ kind |-> "TypeError", text |-> "'NoneType' object is not subscriptable" ] }

ChatInit ==
    /\ discovery_session = NewDiscoverySession("s0")
    /\ session_file = [kind |-> "absent"]
    /\ loads = 0
    /\ context_manager = NewContextManager
    /\ context_file = [kind |-> "absent"]
    /\ exchanges = 0
    /\ personality_profiler = NewPersonalityProfiler
    /\ dynamic_questioner = NewDynamicQuestioningEngine
    /\ bot = [ program    |-> "SmartMemoryBot",
               pc         |-> "loop",
               memory     |-> NewSmartConversationMemory,
               added      |-> 0,
               line       |-> "",
               user_input |-> "",
               response   |-> NoResponse,
               printed    |-> << >> ]
    /\ engine_call = NoCall
    /\ scoring_call = NoScoring
    /\ analysis_call = NoAnalysis
    /\ args = << >>
    /\ op = "init"
    /\ ret = "None"

Chat ==
    /\ bot.pc = "loop"
    /\ bot.added < MaxAddedMessages
    /\ \E line \in ChatLines, resp \in ChatReplies, summary_resp \in SummaryReplies :
         \E r \in { chat_iteration(bot, session_file, line, resp, summary_resp) } :
            /\ bot' = r.bot
            /\ session_file' = r.file
            /\ op' = r.op
    /\ ret' = "None"
    /\ UNCHANGED <<discovery_session, loads, contextVars, personality_profiler,
                   dynamic_questioner, engine_call, scoring_call, analysis_call, args>>

ChatNext == Chat

ChatSpec == ChatInit /\ [][ChatNext]_vars

-----------------------------------------------------------------------------
(* Claims about the stage machine *)

SessionOps == {"get_next_question", "process_response", "_advance_to_next_stage"}

CompletedFlags(s) == [ st \in StageNames |-> s.stage_progress[st].completed ]

QuestionCounts(s) == [ st \in StageNames |-> s.stage_progress[st].question_count ]

(* C1: over any sequence of get_next_question, process_response and
   _advance_to_next_stage calls the stage index never decreases and never
   exceeds the number of stages. *)
C1_StageIndexMonotoneBounded ==
    [][ /\ discovery_session'.current_stage >= discovery_session.current_stage
        /\ discovery_session'.current_stage <= NumStages
        /\ discovery_session.current_stage <= NumStages ]_vars

(* C1 witness: the index has been moved up to the number of stages by a
   get_next_question call that answered None. *)
C1_Witness ==
    /\ discovery_session.current_stage = NumStages
    /\ op = "get_next_question"
    /\ total_responses(discovery_session) >= 3

(* C2: the completed state is absorbing: there process_response returns
   False, get_next_question returns None, _advance_to_next_stage does
   nothing, and none of them changes the stage index, the progress or the
   stored answers. *)
C2_TerminalAbsorbing ==
    [][ get_current_stage(discovery_session) = "completed" =>
          /\ op' = "process_response" => ret' = "False"
          /\ op' = "get_next_question" => ret' = "None"
          /\ discovery_session'.current_stage = discovery_session.current_stage
          /\ discovery_session'.stage_progress = discovery_session.stage_progress
          /\ discovery_session'.user_responses = discovery_session.user_responses ]_vars

(* C2 witness: an answer has been refused in the completed state of a
   session that holds earlier answers. *)
C2_Witness ==
    /\ get_current_stage(discovery_session) = "completed"
    /\ op = "process_response"
    /\ ret = "False"
    /\ total_responses(discovery_session) >= 1

(* C3: process_response changes neither the stage index nor a completed
   flag; every change of the stage index is one increment by one that also
   sets completed on exactly the stage left; without a change of the index
   no completed flag changes. *)
C3_OnlyAdvanceMovesStage ==
    [][ LET old == discovery_session.current_stage
            new == discovery_session'.current_stage
        IN /\ op' = "process_response" =>
                 /\ new = old
                 /\ CompletedFlags(discovery_session') = CompletedFlags(discovery_session)
           /\ new # old =>
                 /\ new = old + 1
                 /\ old < NumStages
                 /\ CompletedFlags(discovery_session') =
                        [ CompletedFlags(discovery_session) EXCEPT ![stages[old + 1]] = TRUE ]
           /\ new = old =>
                 CompletedFlags(discovery_session') = CompletedFlags(discovery_session)
      ]_vars

(* C3 witness: _advance_to_next_stage has left a stage that holds answers,
   and that stage is marked completed. *)
C3_Witness ==
    /\ op = "_advance_to_next_stage"
    /\ discovery_session.current_stage = 2
    /\ discovery_session.stage_progress["skills_assessment"].completed
    /\ discovery_session.stage_progress["skills_assessment"].question_count >= 1

(* C4: get_next_question returns the template of the (possibly advanced)
   current stage at index question_count; it advances first exactly when
   the stage it starts in has no template left; it returns None exactly
   when the stages are exhausted; it makes at most NumStages advances and
   changes no answer and no response counter. *)
C4_NextQuestion ==
    [][ op' = "get_next_question" =>
          LET old  == discovery_session
              new  == discovery_session'
              name == get_current_stage(new)
          IN /\ (ret' = "None") <=> (name = "completed")
             /\ name # "completed" =>
                   LET qc == new.stage_progress[name].question_count
                   IN /\ qc < Len(get_stage_questions(name))
                      /\ ret' = get_stage_questions(name)[qc + 1]
             /\ get_current_stage(old) # "completed" =>
                   LET oname == get_current_stage(old)
                       exhausted ==
                           old.stage_progress[oname].question_count
                               >= Len(get_stage_questions(oname))
                   IN (new.current_stage > old.current_stage) <=> exhausted
             /\ new.current_stage - old.current_stage <= NumStages
             /\ new.current_stage >= old.current_stage
             /\ new.user_responses = old.user_responses
             /\ QuestionCounts(new) = QuestionCounts(old) ]_vars

(* C4 witness: a call that found every template of the introduction used
   advanced and returned the first template of the next stage. *)
C4_Witness ==
    /\ op = "get_next_question"
    /\ discovery_session.current_stage = 1
    /\ discovery_session.stage_progress["introduction"].question_count = 3
    /\ ret = "Let's explore your natural talents"


-----------------------------------------------------------------------------
(* Claims about persistence of the session *)

(* C6: a load_session call that reports failure (unreadable file, invalid
   JSON, or a record short of a required key) leaves every field of the
   session as it was. *)
C6_FailedLoadLeavesSessionUnchanged ==
    [][ (op' = "load_session" /\ ret' = "False")
            => discovery_session' = discovery_session ]_vars

(* C7: save_session changes no session state, and loading the file it
   wrote into a new DiscoverySession succeeds and reproduces the stage
   index, the per-stage progress and the per-stage answer sequences. *)
C7_SaveLoadRoundTrip ==
    [][ op' = "save_session" =>
          /\ discovery_session' = discovery_session
          /\ \A id \in SessionIds :
                LET r == load_session(NewDiscoverySession(id), session_file')
                IN /\ r.ret = "True"
                   /\ r.s.current_stage  = discovery_session.current_stage
                   /\ r.s.stage_progress = discovery_session.stage_progress
                   /\ r.s.user_responses = discovery_session.user_responses ]_vars

(* C7 witness: a session past its first stage, holding two different
   answers in one stage, has just been saved. *)
C7_Witness ==
    /\ op = "save_session"
    /\ session_file.kind = "json"
    /\ session_file.data = session_data(discovery_session)
    /\ discovery_session.current_stage >= 1
    /\ \E st \in StageNames :
          /\ Len(discovery_session.user_responses[st]) = 2
          /\ discovery_session.user_responses[st][1].response
                 # discovery_session.user_responses[st][2].response

-----------------------------------------------------------------------------
(* Claims about the context manager *)

(* C5: across add_exchange calls every theme stays, its strength never
   decreases, and no strength exceeds the ceiling 5.0. *)
C5_ThemeStrengthMonotoneCapped ==
    [][ /\ \A i \in 1..Len(context_manager.themes) :
              /\ i <= Len(context_manager'.themes)
              /\ context_manager'.themes[i].theme_name = context_manager.themes[i].theme_name
              /\ context_manager'.themes[i].strength >= context_manager.themes[i].strength
        /\ \A i \in 1..Len(context_manager'.themes) :
              context_manager'.themes[i].strength <= ThemeStrengthCap ]_vars

(* C5 witness: a theme matched ten times, one more than it takes to reach
   the ceiling, stands at the ceiling. *)
C5_Witness ==
    \E i \in 1..Len(context_manager.themes) :
        /\ Len(context_manager.themes[i].evidence) >= 10
        /\ context_manager.themes[i].strength = ThemeStrengthCap

(* C8: the record written by save_context determines the manager: the
   manager rebuilt from it has the same insights, themes (name, evidence,
   strength, first stage), exchange log and stage; save_context changes
   nothing in the manager. *)
C8_ContextRoundTrip ==
    [][ op' = "save_context" =>
          /\ context_manager' = context_manager
          /\ context_file'.kind = "json"
          /\ reconstruct_context(context_file'.data) = context_manager ]_vars

(* C8 witness: a manager with insights, two themes and more than three
   exchanges has just been saved. *)
C8_Witness ==
    /\ op = "save_context"
    /\ context_file.kind = "json"
    /\ context_file.data = context_data(context_manager)
    /\ Len(context_manager.insights) >= 1
    /\ Len(context_manager.themes) >= 2
    /\ Len(context_manager.conversation_timeline) >= 4


-----------------------------------------------------------------------------
(* Claims about the interview loops *)

(* the line is empty or made of white space only *)
IsBlank(line) == \A i \in 1..Len(line) : IsSpace(SubSeq(line, i, i))

(* C9: in both interview loops an iteration that reads an empty or
   whitespace-only line is a no-op turn: no answer is recorded in the
   session, no exchange in the context manager, no sample in the profiler,
   the questioner is untouched, nothing is saved or counted, nothing is
   printed (no next question is produced) and the loop waits for the next
   line. *)
C9_EmptyInputIsNoOp ==
    [][ (bot.pc = "loop" /\ IsBlank(bot'.line))
        => /\ discovery_session' = discovery_session
           /\ context_manager' = context_manager
           /\ personality_profiler' = personality_profiler
           /\ dynamic_questioner' = dynamic_questioner
           /\ session_file' = session_file
           /\ context_file' = context_file
           /\ exchanges' = exchanges
           /\ bot'.printed = << >>
           /\ bot' = [ bot EXCEPT !.line = bot'.line, !.user_input = "",
                                  !.printed = << >> ] ]_vars

(* an interview that holds an answer and its exchange has just read a line
   of white space *)
C9_Witness ==
    /\ bot.program = "EnhancedSpiritualDiscoveryBot"
    /\ bot.pc = "loop"
    /\ op = "empty"
    /\ bot.line = "   "
    /\ total_responses(discovery_session) = 1
    /\ Len(context_manager.conversation_timeline) = 1

SuccessfulReply == [ kind |-> "text", text |-> "Thank you for sharing that." ]

PlaceholderTexts ==
    { call_gemini_with_intelligence([ kind |-> k, text |-> "" ]).text :
        k \in {"no_text", "RequestException", "KeyError"} }

(* C10: when the generation collaborator fails during a turn of
   EnhancedSpiritualDiscoveryBot (any reply but a generated text), the turn
   is not aborted: the call yields a placeholder text, the answer stays
   recorded in the session, the exchange is recorded by the context manager
   with the placeholder as generated text, and the session, the profiler,
   the questioner and the stage after the turn are those of the same turn
   with a successful generation. *)
C10_GenerationFailureKeepsTurn ==
    [][ ( /\ bot.program = "EnhancedSpiritualDiscoveryBot"
          /\ bot.pc = "loop"
          /\ op' = "answer"
          /\ bot'.response.kind # "text" )
        => \E good \in { enhanced_iteration(ProgramState, bot'.line, SuccessfulReply) } :
             /\ bot'.pc = "loop"
             /\ total_responses(discovery_session') = total_responses(discovery_session) + 1
             /\ discovery_session' = good.discovery_session
             /\ personality_profiler' = good.personality_profiler
             /\ dynamic_questioner' = good.dynamic_questioner
             /\ bot'.conversation_stage = good.bot.conversation_stage
             /\ bot'.total_exchanges = bot.total_exchanges + 1
             /\ exchanges' = exchanges + 1
             /\ context_manager'.insights = good.context_manager.insights
             /\ context_manager'.themes = good.context_manager.themes
             /\ Len(context_manager'.conversation_timeline)
                    = Len(good.context_manager.conversation_timeline)
             /\ LET n == Len(context_manager'.conversation_timeline)
                    last == context_manager'.conversation_timeline[n]
                IN /\ last.user_input = bot'.user_input
                   /\ last.bot_response \in PlaceholderTexts
                   /\ last = [ good.context_manager.conversation_timeline[n]
                                 EXCEPT !.bot_response = last.bot_response ] ]_vars

-----------------------------------------------------------------------------
(* Claims about the context manager's memory *)

Min(a, b) == IF a < b THEN a ELSE b

(* the last n elements of a sequence *)
LastN(seq, n) == SubSeq(seq, Len(seq) - n + 1, Len(seq))

(* seq is an initial part of longer *)
IsPrefix(seq, longer) ==
    /\ Len(seq) <= Len(longer)
    /\ SubSeq(longer, 1, Len(seq)) = seq

(* C11: after every add_exchange the exchange log holds exactly the most
   recent min(n, 8) exchanges in their original order, n the number of
   exchanges ever recorded: its last entry is the exchange just recorded and
   the entries before it are the most recent entries of the log before the
   call; the insight list is only appended to and no theme is removed. *)
C11_WindowedLogFullMemory ==
    [][ op' = "add_exchange" =>
          LET before == context_manager.conversation_timeline
              after  == context_manager'.conversation_timeline
              kept   == Min(exchanges', max_context_window)
          IN /\ Len(before) = Min(exchanges, max_context_window)
             /\ Len(after) = kept
             /\ \E x \in ContextInputs :
                   after[kept] = [ stage        |-> x.stage,
                                   user_input   |-> x.user_input,
                                   bot_response |-> x.bot_response,
                                   exchange_id  |-> Len(before) ]
             /\ SubSeq(after, 1, kept - 1) = LastN(before, kept - 1)
             /\ IsPrefix(context_manager.insights, context_manager'.insights)
             /\ \A i \in 1..Len(context_manager.themes) :
                   /\ i <= Len(context_manager'.themes)
                   /\ context_manager'.themes[i].theme_name
                        = context_manager.themes[i].theme_name ]_vars

(* C11 witness: more exchanges were recorded than the window holds; the log
   is at the window size while the insights outnumber it and the themes are
   still there. *)
C11_Witness ==
    /\ op = "add_exchange"
    /\ exchanges > max_context_window + 1
    /\ Len(context_manager.conversation_timeline) = max_context_window
    /\ Len(context_manager.insights) > max_context_window
    /\ Len(context_manager.themes) >= 2

InsightTypes == { insight_patterns[i].insight_type : i \in 1..Len(insight_patterns) }

(* the insights appended by the step *)
NewInsights ==
    SubSeq(context_manager'.insights,
           Len(context_manager.insights) + 1, Len(context_manager'.insights))

(* the text of the exchange recorded by the step *)
RecordedInput ==
    context_manager'.conversation_timeline[Len(context_manager'.conversation_timeline)].user_input

(* C12: one add_exchange call creates at most one Insight per insight
   category, the first matching phrase of the category winning, even when
   the text carries several phrases of the category. *)
C12_OneInsightPerCategoryPerCall ==
    [][ op' = "add_exchange" =>
          \A type \in InsightTypes :
              Len(SelectSeq(NewInsights, LAMBDA ins : ins.insight_type = type)) <= 1 ]_vars

(* C13: every stored Insight has confidence at or above the persistence
   threshold 0.6, and recording an exchange whose text contains "people
   often come to me" and "i excel at", in any letter case, adds at least one
   Insight of kind strong_skill_indicator with confidence >= 0.8. *)
C13_InsightsAtOrAboveThreshold ==
    [][ /\ \A i \in 1..Len(context_manager'.insights) :
              context_manager'.insights[i].confidence >= insight_threshold
        /\ (/\ op' = "add_exchange"
            /\ Contains("people often come to me", lower(RecordedInput))
            /\ Contains("i excel at", lower(RecordedInput)))
           => \E i \in 1..Len(NewInsights) :
                 /\ NewInsights[i].insight_type = "strong_skill_indicator"
                 /\ NewInsights[i].confidence >= 8
                 /\ NewInsights[i].content = RecordedInput ]_vars

(* C13 witness: the exchange just recorded carries both phrases, one of
   them in upper case, and the insight list ends with a
   strong_skill_indicator made from it. *)
C13_Witness ==
    /\ op = "add_exchange"
    /\ Len(context_manager.conversation_timeline) >= 1
    /\ LET text == context_manager.conversation_timeline[
                       Len(context_manager.conversation_timeline)].user_input
       IN /\ Contains("People often come to me", text)
          /\ Contains("I EXCEL AT", text)
          /\ \E i \in 1..Len(context_manager.insights) :
                /\ context_manager.insights[i].content = text
                /\ context_manager.insights[i].insight_type = "strong_skill_indicator"
                /\ context_manager.insights[i].confidence >= 8

(* the stage of the exchange recorded by the step *)
RecordedStage ==
    context_manager'.conversation_timeline[Len(context_manager'.conversation_timeline)].stage

(* the theme of a name, as a sequence of length 0 or 1 *)
ThemeNamed(themes, name) == SelectSeq(themes, LAMBDA th : th.theme_name = name)

(* C14: an add_exchange whose text matches at least one keyword of a theme
   category creates the theme with strength 1.0 and one evidence entry if it
   is new, otherwise appends one evidence entry and adds exactly 0.5, once
   per call however many keywords matched, clamped at 5.0; with no match the
   theme is unchanged; first_mentioned never changes.  Hence strength =
   min(5.0, 1.0 + 0.5 * (evidence count - 1)) in every state. *)
C14_ThemeUpdateRule ==
    [][ op' = "add_exchange" =>
          /\ \A k \in 1..Len(theme_keywords) :
                LET name    == theme_keywords[k].theme_name
                    matched == \E j \in 1..Len(theme_keywords[k].keywords) :
                                  Contains(theme_keywords[k].keywords[j], lower(RecordedInput))
                    before  == ThemeNamed(context_manager.themes, name)
                    after   == ThemeNamed(context_manager'.themes, name)
                IN IF ~matched THEN after = before
                   ELSE IF before = << >>
                   THEN after = << [ theme_name      |-> name,
                                     evidence        |-> << RecordedInput >>,
                                     strength        |-> ThemeInitialStrength,
                                     first_mentioned |-> RecordedStage ] >>
                   ELSE after = << [ theme_name      |-> name,
                                     evidence        |-> Append(before[1].evidence, RecordedInput),
                                     strength        |-> Min(ThemeStrengthCap,
                                                             before[1].strength + ThemeStrengthIncrement),
                                     first_mentioned |-> before[1].first_mentioned ] >>
          /\ \A i \in 1..Len(context_manager'.themes) :
                context_manager'.themes[i].strength
                  = Min(ThemeStrengthCap,
                        ThemeInitialStrength
                          + ThemeStrengthIncrement * (Len(context_manager'.themes[i].evidence) - 1)) ]_vars

(* C14 witness: the teaching theme, matched by three keywords in each of ten
   exchanges, stands at the ceiling, and the people theme, first matched in
   the introduction, was matched again by the exchange of a later stage
   just recorded, which left the teaching theme alone. *)
C14_Witness ==
    /\ op = "add_exchange"
    /\ \E i \in 1..Len(context_manager.themes) :
          /\ context_manager.themes[i].theme_name = "teaching"
          /\ Len(context_manager.themes[i].evidence) = 10
          /\ context_manager.themes[i].strength = ThemeStrengthCap
    /\ \E i \in 1..Len(context_manager.themes) :
          /\ context_manager.themes[i].theme_name = "people_focus"
          /\ context_manager.themes[i].first_mentioned = "introduction"
          /\ context_manager.current_stage = "skills_assessment"
          /\ Len(context_manager.themes[i].evidence) >= 2

-----------------------------------------------------------------------------
(* Claims about the questioning engine *)

(* the elements of a sequence *)
Range(seq) == { seq[i] : i \in 1..Len(seq) }

(* the answer recorded by a process_response step *)
RecordedAnswer ==
    LET stage_responses == discovery_session'.user_responses[get_current_stage(discovery_session)]
    IN stage_responses[Len(stage_responses)].response

(* the text contains an indicator of the area *)
HasIndicator(area, text) ==
    \E i \in 1..Len(theme_indicators(area)) :
        Contains(theme_indicators(area)[i], lower(text))

(* C15: an area none of whose indicators occurs in the corpus stays
   uncovered across generate_next_question calls, and stops being uncovered
   exactly when an answer containing one of its indicators is added to the
   corpus; an area once covered never becomes uncovered again. *)
C15_UncoveredUntilIndicatorAnswered ==
    [][ \E before \in { Range(areas_not_covered(discovery_session.user_responses)) },
           after  \in { Range(areas_not_covered(discovery_session'.user_responses)) } :
          /\ after \subseteq before
          /\ op' = "generate_next_question" => after = before
          /\ op' = "process_response" =>
                after = { area \in before : ~HasIndicator(area, RecordedAnswer) } ]_vars

(* the patterns of confidence >= 0.8 emitted by the detection pass of the
   generate_next_question call *)
StrongNewPatterns ==
    { p \in Range(engine_call'.new_patterns) : p.confidence >= deep_dive_threshold }

(* C16: whenever the detection pass of a generate_next_question call emits a
   pattern with confidence >= 0.8, the question returned by the call is a
   deep-dive question for such a pattern: type deep_dive, priority 0.9,
   aimed at one of these patterns. *)
C16_StrongPatternGetsDeepDive ==
    [][ (op' = "generate_next_question" /\ StrongNewPatterns # {}) =>
          /\ engine_call'.question.question_type = "deep_dive"
          /\ engine_call'.question.priority = 9
          /\ \E p \in StrongNewPatterns :
                engine_call'.question.target_theme = p.pattern_name ]_vars

(* the follow-up rules one of whose trigger phrases occurs in the text, in
   declaration order *)
FiredRules(text) ==
    SelectSeq(follow_up_rules,
              LAMBDA rule : \E t \in Range(rule.triggers) : Contains(t, lower(text)))

(* a synthesis question applies: at least two patterns of the history have
   confidence >= 0.7 *)
SynthesisApplies(dq) ==
    Cardinality({ i \in 1..Len(dq.response_patterns) :
                    dq.response_patterns[i].confidence >= pattern_threshold }) >= 2

(* C17: when no deep-dive question is returned, generate_next_question
   returns, in this order: the follow-up (priority 0.7) of the first
   follow-up rule with a trigger phrase in the last answer; else the first
   canonical question (priority 0.6) of the first uncovered coverage area;
   else a synthesis question (priority 0.8) if at least two patterns of the
   history have confidence >= 0.7; else the standard question of the stage
   (priority 0.5).  A coverage question thus wins over an applicable
   synthesis question, and the call always returns a question. *)
C17_QuestionSelectionOrder ==
    [][ op' = "generate_next_question" =>
          \E q \in { engine_call'.question } :
            /\ q # NoQuestion
            /\ q.question_type # "deep_dive" =>
                 \E fired \in { FiredRules(engine_call'.last_response) },
                    uncovered \in { areas_not_covered(discovery_session.user_responses) } :
                   IF fired # << >>
                   THEN q = [ question_text |-> fired[1].question,
                              question_type |-> "follow_up",
                              target_theme  |-> engine_call'.current_stage,
                              priority      |-> 7 ]
                   ELSE IF uncovered # << >>
                   THEN /\ q.question_type = "standard"
                        /\ q.target_theme = uncovered[1]
                        /\ q.priority = 6
                        /\ \E r \in Range(coverage_requirements) :
                              r.area = uncovered[1] /\ q.question_text = r.questions[1]
                   ELSE IF SynthesisApplies(dynamic_questioner')
                   THEN q.question_type = "synthesis" /\ q.priority = 8
                   ELSE /\ q = generate_standard_question(engine_call'.current_stage)
                        /\ q.priority = 5 ]_vars

(* C17 witness: a coverage question was returned although two patterns of
   the history have confidence >= 0.7 and no follow-up rule fired. *)
C17_Witness ==
    /\ op = "generate_next_question"
    /\ SynthesisApplies(dynamic_questioner)
    /\ FiredRules(engine_call.last_response) = << >>
    /\ engine_call.question.priority = 6
    /\ engine_call.question.target_theme \in CoverageAreas

(* the number of entries of a list of words that occur in the text *)
Matched(words, text) ==
    Cardinality({ i \in 1..Len(words) : Contains(words[i], text) })

(* the score of a pattern rule over the text: 0.2 per matched keyword plus
   0.3 per matched phrase, capped at 1.0; in tenths *)
CappedScore(rule, text) ==
    Min(MaxConfidence,
        KeywordWeight * Matched(rule.keywords, text)
          + PhraseWeight * Matched(rule.phrases, text))

(* C18: a detection pass scores each named pattern as 0.2 per matched
   keyword plus 0.3 per matched phrase over the concatenated lower-cased
   corpus, capped at 1.0, and emits it iff the capped score is at least the
   pattern's threshold and something matched; an emitted pattern has
   confidence between its threshold and 1.0.  The call appends exactly the
   emitted patterns to the history, which is never shortened or
   deduplicated. *)
C18_PatternScoring ==
    [][ /\ IsPrefix(dynamic_questioner.response_patterns, dynamic_questioner'.response_patterns)
        /\ op' = "generate_next_question" =>
             \E text \in { lower(JoinWithSpace(AllResponses(discovery_session.user_responses))) } :
              \E emitted \in { SelectSeq(pattern_rules,
                                         LAMBDA rule :
                                           /\ CappedScore(rule, text) >= rule.threshold
                                           /\ Matched(rule.keywords, text)
                                                + Matched(rule.phrases, text) >= 1) } :
                /\ Len(engine_call'.new_patterns) = Len(emitted)
                /\ \A i \in 1..Len(emitted) :
                      /\ engine_call'.new_patterns[i].pattern_name = emitted[i].pattern_name
                      /\ engine_call'.new_patterns[i].confidence = CappedScore(emitted[i], text)
                      /\ engine_call'.new_patterns[i].confidence >= emitted[i].threshold
                      /\ engine_call'.new_patterns[i].confidence <= MaxConfidence
                /\ dynamic_questioner'.response_patterns
                     = dynamic_questioner.response_patterns \o engine_call'.new_patterns ]_vars

(* C18 witness: the pass over a corpus with four teaching keywords and a
   teaching phrase (raw score 1.1) and one leadership keyword (score 0.2)
   emitted the teaching pattern alone, with confidence 1.0, and the history
   now holds the teaching pattern twice. *)
C18_Witness ==
    /\ op = "generate_next_question"
    /\ Len(engine_call.new_patterns) = 1
    /\ engine_call.new_patterns[1].pattern_name = "strong_teaching_indicators"
    /\ engine_call.new_patterns[1].confidence = MaxConfidence
    /\ Len(engine_call.new_patterns[1].evidence) = 5
    /\ Matched(pattern_rules[2].keywords,
               lower(JoinWithSpace(AllResponses(discovery_session.user_responses)))) = 1
    /\ Len(dynamic_questioner.response_patterns) = 2
    /\ dynamic_questioner.response_patterns[1].pattern_name
         = dynamic_questioner.response_patterns[2].pattern_name

(* the minimum number of answers of a stage: introduction 1, skills 2,
   passions 2, values 1, any other stage 1 *)
StageMinimum(stage) ==
    IF stage \in { "skills_assessment", "passion_exploration" } THEN 2 ELSE 1

(* the history holds a pattern with confidence >= 0.8 *)
HasStrongPattern(dq) ==
    \E i \in 1..Len(dq.response_patterns) : dq.response_patterns[i].confidence >= 8

(* C19: should_continue_current_stage(stage, n) is true if n is below the
   minimum of the stage; otherwise true iff the history holds a pattern with
   confidence >= 0.8 and n < 4; so it is false for every n >= 4; and it
   changes no state. *)
C19_ShouldContinueStage ==
    [][ op' = "should_continue_current_stage" =>
          \E stage \in { engine_call'.current_stage }, n \in { engine_call'.response_count } :
            /\ ret' \in { "True", "False" }
            /\ ret' = "True" <=>
                  \/ n < StageMinimum(stage)
                  \/ HasStrongPattern(dynamic_questioner) /\ n < 4
            /\ n >= 4 => ret' = "False"
            /\ dynamic_questioner' = dynamic_questioner
            /\ discovery_session' = discovery_session ]_vars

(* C19 witness: with a pattern of confidence >= 0.8 in the history the call
   for the fourth answer of a stage, above the minimum, returned False. *)
C19_Witness ==
    /\ op = "should_continue_current_stage"
    /\ HasStrongPattern(dynamic_questioner)
    /\ engine_call.current_stage = "skills_assessment"
    /\ engine_call.response_count = 4
    /\ ret = "False"

-----------------------------------------------------------------------------
(* Claims about the scoring system *)

(* C20: calculate_gift_scores is idempotent and read-only.  A call made on
   the corpus that the call before it was made on returns the same dict as
   that call: the same total, sub-scores and strength label for every gift.
   And a call changes neither the corpus nor any other state of the
   program: only the record of the call itself is new. *)
C20_ScoringIdempotentReadOnly ==
    [][ op' = "calculate_gift_scores" =>
          /\ discovery_session' = discovery_session
          /\ UNCHANGED <<session_file, loads, contextVars, personality_profiler,
                         dynamic_questioner, bot, engine_call,
                   analysis_call, args>>
          /\ scoring_call'.user_responses = discovery_session.user_responses
          /\ ( /\ scoring_call # NoScoring
               /\ scoring_call.user_responses = scoring_call'.user_responses
               => /\ Len(scoring_call'.gift_scores) = Len(gifts_framework)
                  /\ \A g \in 1..Len(gifts_framework) :
                        /\ scoring_call'.gift_scores[g].key = scoring_call.gift_scores[g].key
                        /\ scoring_call'.gift_scores[g].value.total_score
                             = scoring_call.gift_scores[g].value.total_score
                        /\ scoring_call'.gift_scores[g].value.score_components
                             = scoring_call.gift_scores[g].value.score_components
                        /\ scoring_call'.gift_scores[g].value.strength
                             = scoring_call.gift_scores[g].value.strength ) ]_vars

(* a second call has been made on the corpus of the first, a corpus with an
   answer in the skills stage and one in the values stage that give some
   gift a skills and a values sub-score and a label above the lowest *)
C20_Witness ==
    /\ op = "calculate_gift_scores"
    /\ scoring_call.repeated
    /\ discovery_session.user_responses = scoring_call.user_responses
    /\ \E g \in 1..Len(scoring_call.gift_scores) :
          /\ scoring_call.gift_scores[g].value.score_components.skills_alignment > 0
          /\ scoring_call.gift_scores[g].value.score_components.values_alignment > 0
          /\ scoring_call.gift_scores[g].value.strength # "Low"

-----------------------------------------------------------------------------
(* Claims about the gift scores *)

(* the sum of the four sub-scores, in twelfths of a point *)
ComponentSum(score_components) ==
    score_components.skills_alignment + score_components.passions_alignment
      + score_components.values_alignment + score_components.response_content

(* every sub-score lies in [0, 25] *)
ComponentsInRange(score_components) ==
    /\ score_components.skills_alignment \in 0..(12 * 25)
    /\ score_components.passions_alignment \in 0..(12 * 25)
    /\ score_components.values_alignment \in 0..(12 * 25)
    /\ score_components.response_content \in 0..(12 * 25)

(* the label goes with the bracket of a total given as the fraction n / d *)
LabelOfBracket(strength, n, d) ==
    /\ (strength = "Dominant") <=> n >= 70 * d
    /\ (strength = "Strong")   <=> (n >= 50 * d /\ n < 70 * d)
    /\ (strength = "Moderate") <=> (n >= 30 * d /\ n < 50 * d)
    /\ (strength = "Emerging") <=> (n >= 15 * d /\ n < 30 * d)
    /\ (strength = "Low")      <=> n < 15 * d

(* C21 as stated: for every gift of every scored corpus each sub-score lies
   in [0, 25], the returned total is the sum of the four sub-scores and lies
   in [0, 100], and the label is the one of the total's bracket *)
C21_TotalIsSumOfSubScores ==
    \A g \in 1..Len(scoring_call.gift_scores) :
        \E v \in { scoring_call.gift_scores[g].value } :
            /\ ComponentsInRange(v.score_components)
            /\ 12 * v.total_score = 10 * ComponentSum(v.score_components)
            /\ v.total_score \in 0..(10 * 100)
            /\ LabelOfBracket(v.strength, v.total_score, 10)

(* C21 amended: for every gift of every scored corpus each sub-score lies in
   [0, 25]; the returned total is the sum of the four sub-scores rounded to
   one decimal (it differs from the sum by at most 0.05) and lies in
   [0, 100]; and the label is the one of the bracket of the sum, which is
   the bracket of the returned total too *)
C21_TotalIsRoundedSum ==
    \A g \in 1..Len(scoring_call.gift_scores) :
        \E v \in { scoring_call.gift_scores[g].value } :
            /\ ComponentsInRange(v.score_components)
            /\ 12 * v.total_score - 10 * ComponentSum(v.score_components) \in -6..6
            /\ v.total_score \in 0..(10 * 100)
            /\ LabelOfBracket(v.strength, ComponentSum(v.score_components), 12)
            /\ LabelOfBracket(v.strength, v.total_score, 10)

(* a corpus has been scored that makes one gift Dominant and gives another
   gift a sum that is no whole number of tenths and a label above Low *)
C21_Witness ==
    /\ op = "calculate_gift_scores"
    /\ \E g \in 1..Len(scoring_call.gift_scores) :
          scoring_call.gift_scores[g].value.strength = "Dominant"
    /\ \E g \in 1..Len(scoring_call.gift_scores) :
          \E v \in { scoring_call.gift_scores[g].value } :
             /\ 12 * v.total_score # 10 * ComponentSum(v.score_components)
             /\ v.strength \in {"Emerging", "Moderate", "Strong"}

(* the answers of a stage of the scored corpus, lower-cased *)
ScoredAnswers(stage) ==
    LET stage_responses == responses_of(scoring_call.user_responses, stage)
    IN { lower(stage_responses[i].response) : i \in 1..Len(stage_responses) }

(* some keyword of some category of the table occurs in one of the texts *)
SomeKeywordIn(table, texts) ==
    \E k \in 1..Len(table) : \E n \in 1..Len(table[k].keywords) :
        \E text \in texts : Contains(table[k].keywords[n], text)

(* the scored corpus matches nothing: no skill keyword in an answer of the
   skills stage, no passion keyword in an answer of the passions stage, no
   value of any gift in an answer of the values stage, and no word of any
   behavioural marker in any answer *)
NothingMatched ==
    /\ ~SomeKeywordIn(skill_keywords, ScoredAnswers("skills_assessment"))
    /\ ~SomeKeywordIn(passion_keywords, ScoredAnswers("passion_exploration"))
    /\ \A g \in 1..Len(gifts_framework) :
          /\ \A n \in 1..Len(gifts_framework[g].key_indicators.values) :
                \A text \in ScoredAnswers("values_clarification") :
                    ~Contains(gifts_framework[g].key_indicators.values[n], text)
          /\ \A m \in 1..Len(marker_keywords[g]) : \A k \in 1..Len(marker_keywords[g][m]) :
                \A st \in DOMAIN scoring_call.user_responses : \A text \in ScoredAnswers(st) :
                    ~Contains(marker_keywords[g][m][k], text)

(* C22: scoring degrades to zero.  When the scored corpus matches nothing,
   stages without answers and absent stage keys included, the call returns
   a score for every gift, and every gift has the total 0 and the label
   Low. *)
C22_NoMatchScoresZero ==
    op = "calculate_gift_scores" /\ NothingMatched =>
        /\ Len(scoring_call.gift_scores) = Len(gifts_framework)
        /\ \A g \in 1..Len(scoring_call.gift_scores) :
              /\ scoring_call.gift_scores[g].key = gifts_framework[g].gift_name
              /\ scoring_call.gift_scores[g].value.total_score = 0
              /\ ComponentSum(scoring_call.gift_scores[g].value.score_components) = 0
              /\ scoring_call.gift_scores[g].value.strength = "Low"

(* a corpus that matches nothing has been scored: it has an answer in the
   skills stage, and the keys of the stages without answers are absent *)
C22_Witness ==
    /\ op = "calculate_gift_scores"
    /\ NothingMatched
    /\ DOMAIN scoring_call.user_responses = {"skills_assessment"}
    /\ scoring_call.gift_scores # << >>

(* every one of the words occurs in some answer of the stage of the scored
   corpus *)
StageMentions(stage, words) ==
    \A w \in words : \E text \in ScoredAnswers(stage) : Contains(w, text)

(* C23: for every scored corpus whose answers of the skills stage contain
   "teach", "explain" and "mentor" and whose answers of the passions stage
   contain "love", "learn" and "education", the total of teaching exceeds 30
   and its label is Moderate, Strong or Dominant *)
C23_TeachingAboveThirty ==
    /\ op = "calculate_gift_scores"
    /\ StageMentions("skills_assessment", {"teach", "explain", "mentor"})
    /\ StageMentions("passion_exploration", {"love", "learn", "education"})
    => \A g \in 1..Len(scoring_call.gift_scores) :
          scoring_call.gift_scores[g].key = "teaching" =>
              /\ scoring_call.gift_scores[g].value.total_score > 10 * 30
              /\ scoring_call.gift_scores[g].value.strength
                    \in {"Moderate", "Strong", "Dominant"}

-----------------------------------------------------------------------------
(* Claims about the analyzer *)

(* the raw hit count of the category at position k of the table over the
   responses handed to the analyzer: the number of pairs of a keyword of
   the category and a response that contains it *)
Hits(table, k) ==
    Cardinality({ pair \in (1..Len(table[k].keywords)) \X (1..Len(analysis_call.responses)) :
                    Contains(table[k].keywords[pair[1]],
                             lower(analysis_call.responses[pair[2]].response)) })

(* the categories with a hit, by descending hit count, those of equal count
   in the order of the table: the first three *)
TopByEnumeration(table) ==
    LET hit == { k \in 1..Len(table) : Hits(table, k) > 0 }
        Before(j, k) == Hits(table, j) > Hits(table, k)
                          \/ (Hits(table, j) = Hits(table, k) /\ j < k)
        Rank(k) == 1 + Cardinality({ j \in hit : Before(j, k) })
        n == IF Cardinality(hit) < 3 THEN Cardinality(hit) ELSE 3
    IN [ i \in 1..n |-> table[CHOOSE k \in hit : Rank(k) = i].category ]

(* C24: the top skills and the top passions are the three categories with
   the highest raw hit counts, categories of equal count in the order of
   their enumeration, whatever the order in which the answers mention them *)
C24_TopThreeTiesByEnumeration ==
    /\ ( op = "analyze_skills" /\ analysis_call.result.kind = "analysis"
           => analysis_call.result.top = TopByEnumeration(skill_keywords) )
    /\ ( op = "analyze_passions" /\ analysis_call.result.kind = "analysis"
           => analysis_call.result.top = TopByEnumeration(passion_keywords) )

(* the count the themes hold for a key: 0 for a key they do not hold *)
CountOf(themes, key) ==
    IF \E i \in 1..Len(themes) : themes[i].key = key
    THEN themes[CHOOSE i \in 1..Len(themes) : themes[i].key = key].count
    ELSE 0

(* C25: extract_themes counts, for every category, one hit for each pair of
   a keyword of the category and a response whose lower-cased text contains
   the keyword, and holds no key without a hit.  So a keyword repeated in
   one response adds nothing, distinct keywords of one category in one
   response add one each, a keyword of two categories counts for both, and
   the count of a category depends on its own keywords only. *)
C25_OneHitPerKeywordAndResponse ==
    op = "extract_themes" =>
        /\ \A k \in 1..Len(skill_keywords) :
              CountOf(analysis_call.result.skills, skill_keywords[k].category)
                = Hits(skill_keywords, k)
        /\ \A k \in 1..Len(passion_keywords) :
              CountOf(analysis_call.result.passions, passion_keywords[k].category)
                = Hits(passion_keywords, k)
        /\ \A i \in 1..Len(analysis_call.result.skills) :
              analysis_call.result.skills[i].count > 0
        /\ \A i \in 1..Len(analysis_call.result.passions) :
              analysis_call.result.passions[i].count > 0

(* extract_themes has run on three responses: one repeats the keyword
   "teach" and counts once for teaching, one holds two keywords of
   teaching, and one holds "organize", a keyword of leadership and of
   administrative, next to "lead" *)
C25_Witness ==
    /\ op = "extract_themes"
    /\ { analysis_call.responses[i].response : i \in 1..Len(analysis_call.responses) }
         = { "I teach, TEACH and teach", "I mentor and explain", "I lead and organize" }
    /\ CountOf(analysis_call.result.skills, "teaching") = 3
    /\ CountOf(analysis_call.result.skills, "leadership") = 2
    /\ CountOf(analysis_call.result.skills, "administrative") = 1


-----------------------------------------------------------------------------
(* Claims about the personality profiler *)

(* The profile k update_profile calls leave behind *)
ProfileOfSamples(pp) ==
    IF Len(pp.communication_samples) < min_samples_for_profile THEN NoProfile
    ELSE build_communication_profile(pp.communication_samples)

(* C26: after k update_profile calls current_profile is None if k < 3 and
   otherwise the profile built from all k samples, whatever the profile was
   before; build_communication_profile called with fewer than 3 samples
   returns None and leaves current_profile as it was. *)
C26_ProfileFromThirdSample ==
    /\ [](op = "update_profile" =>
             personality_profiler.current_profile = ProfileOfSamples(personality_profiler))
    /\ [][op' = "update_profile" =>
             /\ Len(personality_profiler'.communication_samples)
                  = Len(personality_profiler.communication_samples) + 1
             /\ SubSeq(personality_profiler'.communication_samples, 1,
                       Len(personality_profiler.communication_samples))
                  = personality_profiler.communication_samples]_vars
    /\ [][(op' = "build_communication_profile"
            /\ Len(args'.user_responses) < min_samples_for_profile) =>
             /\ ret' = "None"
             /\ personality_profiler' = personality_profiler]_vars

(* a fourth answer has replaced a profile of another style, and a direct call
   on two answers has returned None over an existing profile *)
C26_Witness ==
    /\ op = "build_communication_profile"
    /\ Len(args.user_responses) = 2
    /\ ret = "None"
    /\ Len(personality_profiler.communication_samples) = 4
    /\ personality_profiler.current_profile # NoProfile
    /\ personality_profiler.current_profile.primary_style
         # build_communication_profile(
               SubSeq(personality_profiler.communication_samples, 1, 3)).primary_style


(* The score the code adds up for a style *)
ScoreOf(m, style) ==
    LET scores == style_scores(m)
    IN scores[CHOOSE i \in 1..Len(scores) : scores[i].style = style].score

EnumerationOrder == << "analytical", "expressive", "practical", "reflective" >>

(* C27: determine_communication_style returns the style with the highest
   additive score and that score as confidence; among styles sharing the
   highest score the earliest of analytical, expressive, practical,
   reflective is returned; the confidence lies in [0, 1]. *)
C27_HighestScoreEarliestStyle ==
    op = "determine_communication_style" =>
        LET m       == args.markers
            primary == args.returned
        IN /\ \E i \in 1..Len(EnumerationOrder) :
                /\ primary.style = EnumerationOrder[i]
                /\ primary.confidence = ScoreOf(m, EnumerationOrder[i])
                /\ \A j \in 1..Len(EnumerationOrder) :
                     /\ ~FloatGreater(ScoreOf(m, EnumerationOrder[j]), primary.confidence)
                     /\ j < i => ScoreOf(m, EnumerationOrder[j]) # primary.confidence
           /\ ~FloatGreater([ tenths |-> 0, ulps |-> 0 ], primary.confidence)
           /\ ~FloatGreater(primary.confidence, [ tenths |-> 10, ulps |-> 0 ])

(* expressive is returned with a score that reflective shares *)
C27_Witness ==
    /\ op = "determine_communication_style"
    /\ ret = "expressive"
    /\ ScoreOf(args.markers, "reflective") = args.returned.confidence
    /\ args.returned.confidence.tenths > 0


(* An emotional-term frequency the code itself counts as low: below the 0.03
   under which determine_communication_style adds to the analytical score
   (personality_profiler.py:172), itself below the neutral 0.05 of
   _default_markers *)
LowEmotionalFrequency(m) == FractionLess(m.emotional_language_frequency, 3, 100)

(* C28: the profile built from 3 answers averaging under 12 words, with a
   low emotional-term frequency, has preferred depth brief and a primary
   style other than expressive. *)
C28_BriefAndNotExpressive ==
    ( /\ op = "update_profile"
      /\ Len(personality_profiler.communication_samples) = 3
      /\ FractionLess(personality_profiler.current_profile.markers.word_count_avg, 12, 1)
      /\ LowEmotionalFrequency(personality_profiler.current_profile.markers) )
    => /\ personality_profiler.current_profile.preferred_depth = "brief"
       /\ personality_profiler.current_profile.primary_style # "expressive"


-----------------------------------------------------------------------------
(* Claims about the context manager's themes and prompt context *)

(* the number of exchanges of the timeline whose input mentions the theme *)
MatchingExchanges(cm, theme) ==
    Cardinality({ i \in 1..Len(cm.conversation_timeline) :
        \E k \in 1..Len(theme_keywords) :
          /\ theme_keywords[k].theme_name = theme
          /\ \E n \in 1..Len(theme_keywords[k].keywords) :
               Contains(theme_keywords[k].keywords[n],
                        lower(cm.conversation_timeline[i].user_input)) })

(* C29: should_suggest_deep_dive(theme) is true iff the theme exists with
   strength >= 2.5 and at least 3 pieces of evidence, false for an unknown
   theme; over add_exchange calls it first becomes true at the theme's fourth
   matching exchange and stays true afterwards. *)
C29_DeepDiveFromFourthMatch ==
    /\ [](\A theme \in DeepDiveThemes :
            /\ should_suggest_deep_dive(context_manager, theme)
                 <=> \E i \in 1..Len(context_manager.themes) :
                       /\ context_manager.themes[i].theme_name = theme
                       /\ context_manager.themes[i].strength >= 25
                       /\ Len(context_manager.themes[i].evidence) >= 3
            /\ should_suggest_deep_dive(context_manager, theme)
                 <=> MatchingExchanges(context_manager, theme) >= 4
            /\ (op = "should_suggest_deep_dive" /\ args.theme = theme)
                 => (ret = "True" <=> should_suggest_deep_dive(context_manager, theme)))
    /\ [](op = "should_suggest_deep_dive" /\ args.theme = "music" => ret = "False")
    /\ [][\A theme \in DeepDiveThemes :
            should_suggest_deep_dive(context_manager, theme)
              => should_suggest_deep_dive(context_manager', theme)]_vars

(* the question is answered True for teaching after its fourth matching
   exchange, among five exchanges of which helping matched all but one *)
C29_Witness ==
    /\ op = "should_suggest_deep_dive"
    /\ args.theme = "teaching"
    /\ ret = "True"
    /\ MatchingExchanges(context_manager, "teaching") = 4
    /\ Len(context_manager.conversation_timeline) = 5


(* the section a part of the context belongs to: 1 insights, 2 themes,
   3 recent exchanges, 4 current input *)
SectionOf(part) ==
    CASE part.kind = "insight" -> 1
      [] part.kind = "theme"   -> 2
      [] part.kind \in { "user", "guide" } -> 3
      [] part.kind = "current" -> 4
      [] part.text = "KEY INSIGHTS DISCOVERED:" -> 1
      [] part.text = "\nEMERGING THEMES:"       -> 2
      [] OTHER -> 3

PartsOfKind(parts, kind) == SelectSeq(parts, LAMBDA part : part.kind = kind)

(* C30: build_context_for_llm changes nothing and puts its sections in the
   order insights, themes, recent exchanges, current input: at most the last
   3 insights with confidence >= 0.8, at most the 3 strongest themes among
   those with strength >= 2.0 in descending strength, at most the last 3
   exchanges of the log in order, and the current input last and only when
   one is given. *)
C30_ContextSectionsInOrder ==
    /\ [][op' = "build_context_for_llm" => context_manager' = context_manager]_vars
    /\ [](op = "build_context_for_llm" =>
          LET parts    == args.returned
              insights == PartsOfKind(parts, "insight")
              themes   == PartsOfKind(parts, "theme")
              users    == PartsOfKind(parts, "user")
              guides   == PartsOfKind(parts, "guide")
              current  == PartsOfKind(parts, "current")
              high     == SelectSeq(context_manager.insights,
                                    LAMBDA i : i.confidence >= 8)
              strong   == { i \in 1..Len(context_manager.themes) :
                              context_manager.themes[i].strength >= 20 }
              log      == context_manager.conversation_timeline
              ThemeShown(i) ==
                  \E k \in 1..Len(themes) :
                      themes[k].theme_name = title(context_manager.themes[i].theme_name)
          IN /\ \A i, j \in 1..Len(parts) :
                    i < j => SectionOf(parts[i]) <= SectionOf(parts[j])
             /\ Len(insights) = IF Len(high) < 3 THEN Len(high) ELSE 3
             /\ \A k \in 1..Len(insights) :
                    LET i == high[Len(high) - Len(insights) + k]
                    IN /\ insights[k].stage = i.stage
                       /\ insights[k].content = i.content \o "..."
             /\ Len(themes) = IF Cardinality(strong) < 3 THEN Cardinality(strong) ELSE 3
             /\ \A k \in 1..Len(themes) :
                    \E i \in strong :
                       /\ themes[k].theme_name = title(context_manager.themes[i].theme_name)
                       /\ themes[k].strength = context_manager.themes[i].strength
                       /\ themes[k].mentioned = Len(context_manager.themes[i].evidence)
             /\ \A k \in 1..(Len(themes) - 1) : themes[k].strength >= themes[k + 1].strength
             /\ \A i \in strong :
                    ~ThemeShown(i) =>
                        \A k \in 1..Len(themes) :
                            themes[k].strength >= context_manager.themes[i].strength
             /\ Len(users) = IF Len(log) < 3 THEN Len(log) ELSE 3
             /\ Len(guides) = Len(users)
             /\ \A k \in 1..Len(users) :
                    LET exchange == log[Len(log) - Len(users) + k]
                    IN /\ users[k].text = exchange.user_input
                       /\ guides[k].text = exchange.bot_response \o "..."
             /\ current # << >> =>
                    /\ args.current_user_input \notin { "None", "" }
                    /\ current = << parts[Len(parts)] >>
                    /\ current[1].text = args.current_user_input
             /\ args.current_user_input = "How can I use my gifts?" => current # << >>)

(* a context built with a current input from more than 3 high-confidence
   insights and a weaker one, 4 strong themes of which the one added to the
   dict last is the strongest, and 4 exchanges *)
C30_Witness ==
    /\ op = "build_context_for_llm"
    /\ args.current_user_input = "How can I use my gifts?"
    /\ Len(SelectSeq(context_manager.insights, LAMBDA i : i.confidence >= 8)) > 3
    /\ \E i \in 1..Len(context_manager.insights) :
          context_manager.insights[i].confidence < 8
    /\ Len(SelectSeq(context_manager.themes, LAMBDA t : t.strength >= 20)) = 4
    /\ PartsOfKind(args.returned, "theme")[1].theme_name = "Creativity"
    /\ Len(context_manager.conversation_timeline) = 4


-----------------------------------------------------------------------------
(* Claims about the enhanced interview *)

AnswersOf(stage) == Len(discovery_session.user_responses[stage])

(* C31: in the enhanced interview every stage has received at least its
   minimum number of answers (1, 2, 2, 1, 1, 1) and at most 4 when it is
   advanced, so the completed state is reached after at least 8 and at most
   24 answers, whatever patterns are detected. *)
C31_StageAnswersBounded ==
    /\ \A stage \in StageNames :
          /\ AnswersOf(stage) <= 4
          /\ discovery_session.stage_progress[stage].completed =>
                AnswersOf(stage) >= StageMinimum(stage)
    /\ get_current_stage(discovery_session) = "completed" =>
          /\ total_responses(discovery_session) >= 8
          /\ total_responses(discovery_session) <= 24
          /\ \A stage \in StageNames : discovery_session.stage_progress[stage].completed

(* the interview is completed after 24 answers, the first of which set off a
   pattern *)
C31_Witness ==
    /\ get_current_stage(discovery_session) = "completed"
    /\ total_responses(discovery_session) = 24
    /\ HasStrongPattern(dynamic_questioner)
    /\ bot.total_exchanges = 24


-----------------------------------------------------------------------------
(* Claims about the questioning engine's bookkeeping *)

(* C32: after a generate_next_question call coverage_status[area] is True
   iff the corpus contains one of the area's indicators. *)
C32_CoverageStatusReflectsScan ==
    op = "generate_next_question" =>
        \A area \in CoverageAreas :
            dynamic_questioner.coverage_status[area]
              <=> area \notin Range(areas_not_covered(discovery_session.user_responses))


(* C33: over any sequence of generate_next_question calls at most
   max_follow_ups follow-up questions are generated for the same theme. *)
C33_FollowUpsPerThemeBounded ==
    \A theme \in StageNames :
        Len(SelectSeq(QuestionsAsked,
                      LAMBDA q : q.question_type = "follow_up" /\ q.target_theme = theme))
          <= max_follow_ups


-----------------------------------------------------------------------------
(* Claims about the Phase 3 discovery loops *)

InsightStages == { "skills_assessment", "passion_exploration", "values_clarification" }

InsightHeading(stage) ==
    "\n" \o ( CASE stage = "skills_assessment" -> "Skills"
                 [] stage = "passion_exploration" -> "Passions"
                 [] OTHER -> "Values" )
         \o " Stage Complete - Quick Insight:"

(* C34: in the loop of SpiritualGiftsDiscoveryBot, the turn whose answer
   completes the skills, passions or values stage prints the stage insights
   of that stage. *)
C34_StageInsightsProvided ==
    [][\A stage \in InsightStages :
          ( /\ op' = "answer"
            /\ bot'.pc # "raised"
            /\ ~discovery_session.stage_progress[stage].completed
            /\ discovery_session'.stage_progress[stage].completed )
          => \E i \in 1..Len(bot'.printed) : bot'.printed[i] = InsightHeading(stage)]_vars


-----------------------------------------------------------------------------
(* Claims about the smart-memory chat loop *)

IntelligentLine(n) ==
    "\n[System: Intelligently summarized conversation - " \o ToString(n)
    \o " messages condensed]\n"

(* C35: a turn of the chat loop in which the stored messages reach the
   summarization threshold (so that older messages are dropped) runs the
   API-based summarization: it prints the line of get_summary_with_api, the
   summary is the text the API returned, and 6 messages are kept before the
   turn's later ones are added. *)
C35_ApiSummaryAtThreshold ==
    [][( /\ op' = "answer"
         /\ Len(bot'.memory.messages) < Len(bot.memory.messages) + (bot'.added - bot.added) )
       => /\ \E i \in 1..Len(bot'.printed), n \in 1..summarize_threshold :
                bot'.printed[i] = IntelligentLine(n)
          /\ \E r \in SummaryReplies :
                r.kind = "text" /\ bot'.memory.conversation_summary = r.text]_vars


-----------------------------------------------------------------------------
(* Claims about the bookkeeping of the discovery session *)

(* C36: in every reachable state a stage is marked completed iff its
   position is below the stage index, and the question_count of every stage
   equals the number of answers stored for it. *)
C36_ProgressMatchesIndexAndAnswers ==
    \A i \in 1..NumStages :
        LET progress == discovery_session.stage_progress[stages[i]]
        IN /\ progress.completed <=> (i - 1 < discovery_session.current_stage)
           /\ progress.question_count = Len(discovery_session.user_responses[stages[i]])


-----------------------------------------------------------------------------
(* Claims about the length of the Phase 3 discovery run *)

RECURSIVE TemplatesUpTo(_)
TemplatesUpTo(i) ==
    IF i = 0 THEN 0 ELSE Len(get_stage_questions(stages[i])) + TemplatesUpTo(i - 1)

TotalTemplates == TemplatesUpTo(NumStages)

LeftByAnswer == bot.pc = "ended" /\ op = "answer"

(* C37: in the loop of DiscoveryBot no stage holds more answers than it has
   question templates; the loop is left through an answer only in the
   completed state; a run in which no skip command was read is left so with
   exactly 21 answers stored, is still in its loop with fewer, and any run
   is over with at most 21. *)
C37_RunLengthBounded ==
    /\ TotalTemplates = 21
    /\ \A i \in 1..NumStages :
          Len(discovery_session.user_responses[stages[i]])
              <= Len(get_stage_questions(stages[i]))
    /\ total_responses(discovery_session) <= TotalTemplates
    /\ LeftByAnswer => get_current_stage(discovery_session) = "completed"
    /\ (LeftByAnswer /\ ~args.skipped) =>
          total_responses(discovery_session) = TotalTemplates
    /\ (bot.pc = "loop" /\ ~args.skipped) =>
          total_responses(discovery_session) < TotalTemplates

C37_Witness ==
    /\ LeftByAnswer
    /\ ~args.skipped
    /\ total_responses(discovery_session) = 21
    /\ \A i \in 1..NumStages : discovery_session.stage_progress[stages[i]].completed

C37_WitnessSkipped ==
    /\ LeftByAnswer
    /\ args.skipped
    /\ total_responses(discovery_session) \in 1..20


-----------------------------------------------------------------------------
(* Claims about the synthesis question *)

StrongPatternNames(dq) ==
    { dq.response_patterns[i].pattern_name :
        i \in { j \in 1..Len(dq.response_patterns) : dq.response_patterns[j].confidence >= 7 } }

(* C38: when generate_next_question returns a synthesis question, at least
   two distinct named patterns with confidence >= 0.7 have been detected. *)
C38_SynthesisNeedsTwoPatterns ==
    ( /\ op = "generate_next_question"
      /\ engine_call.question.question_type = "synthesis" )
    => Cardinality(StrongPatternNames(dynamic_questioner)) >= 2


-----------------------------------------------------------------------------
(* Claims about the stage kept by the enhanced interview *)

LoggedLast(cm) == cm.conversation_timeline[Len(cm.conversation_timeline)]

StoredIn(stage) ==
    /\ stage \in StageNames
    /\ Len(discovery_session'.user_responses[stage])
           = Len(discovery_session.user_responses[stage]) + 1

(* C39: whenever a turn of the enhanced interview ends, conversation_stage
   is the current stage of the discovery session, and the exchange the turn
   logged stands under the stage in which the turn stored its answer. *)
C39_ExchangeLoggedUnderAnswerStage ==
    /\ [](bot.pc = "loop" => bot.conversation_stage = get_current_stage(discovery_session))
    /\ [][(op' = "answer" /\ bot'.pc # "raised") =>
             /\ bot'.conversation_stage = get_current_stage(discovery_session')
             /\ bot'.total_exchanges = bot.total_exchanges + 1
             /\ StoredIn(LoggedLast(context_manager').stage)]_vars

(* C39 for the turns that store their answer: a turn taken after the stages
   are completed stores none and logs its exchange under "completed". *)
C39_ExchangeLoggedUnderStageOfTurn ==
    /\ [](bot.pc = "loop" => bot.conversation_stage = get_current_stage(discovery_session))
    /\ [][(op' = "answer" /\ bot'.pc # "raised") =>
             /\ bot'.conversation_stage = get_current_stage(discovery_session')
             /\ bot'.total_exchanges = bot.total_exchanges + 1
             /\ LoggedLast(context_manager').stage = get_current_stage(discovery_session)
             /\ IF get_current_stage(discovery_session) = "completed"
                THEN discovery_session' = discovery_session
                ELSE StoredIn(LoggedLast(context_manager').stage)]_vars

C39_Witness ==
    /\ op = "answer"
    /\ bot.pc = "loop"
    /\ bot.conversation_stage = "skills_assessment"
    /\ LoggedLast(context_manager).stage = "introduction"
    /\ Len(context_manager.conversation_timeline) = total_responses(discovery_session)


-----------------------------------------------------------------------------
(* Claims about the exchange log *)

(* C40: the exchange_id values of the exchange log are strictly increasing
   in log order, hence pairwise distinct. *)
C40_ExchangeIdsIncreasing ==
    \A i \in 1..Len(context_manager.conversation_timeline) :
        \A j \in 1..Len(context_manager.conversation_timeline) :
            i < j => context_manager.conversation_timeline[i].exchange_id
                       < context_manager.conversation_timeline[j].exchange_id

=============================================================================
